---- MODULE Spec2Model ----
(***************************************************************************)
(* Run orchestration core of dstack: run termination under the run/job     *)
(* processing-set protocol (services/runs.py stop_run and                  *)
(* process_terminating_run) and instance creation with offer fallback      *)
(* (services/runs.py create_instance); the gateway's proxy configuration   *)
(* controller (gateway/core/nginx.py Nginx); run submission, deletion and   *)
(* planning over the store (services/runs.py submit_run, delete_runs,      *)
(* get_run_plan); the stop_run coroutines that one stop_runs call gathers   *)
(* on its session (services/runs.py stop_runs).                            *)
(***************************************************************************)
EXTENDS Integers, Sequences, FiniteSets, TLC

\* ------------------------------------------------------------------ bounds

NumRuns == 1
NumJobs == 2
NumTasks == 2
MaxOffers == 3
NumDomains == 2
NumReplicas == 1
NumServers == 2
NumGatewayTasks == 2
NumSubmitTasks == 2
NumBases == 1
MaxRunRows == 2
NumStopRequests == 2
NumListedRuns == 2
MaxSubmissions == 2
MaxPoolOffers == 52
MaxRemoteOffers == 2
NumProjects == 2
NumStoredRuns == 3

Runs == 1..NumRuns
Jobs == 1..NumJobs
Tasks == 1..NumTasks
Domains == 1..NumDomains
Replicas == 1..NumReplicas
Servers == 1..NumServers
GatewayTasks == 1..NumGatewayTasks
SubmitTasks == 1..NumSubmitTasks
Bases == 1..NumBases
StopRequests == 1..NumStopRequests
ListedRuns == 1..NumListedRuns
Projects == 1..NumProjects

\* job j belongs to run RunOf(j); run.jobs is the list of its jobs in id order
RunOf(j) == ((j - 1) % NumRuns) + 1
JobsOf(r) == {j \in Jobs : RunOf(j) = r}

None == "None"

\* ------------------------------------------------------- statuses, reasons

RunFinishedStatuses == {"DONE", "FAILED", "TERMINATED"}
JobFinishedStatuses == {"DONE", "FAILED", "TERMINATED", "ABORTED"}

RunIsFinished(status) == status \in RunFinishedStatuses
JobIsFinished(status) == status \in JobFinishedStatuses

\* runs.py:751-761
run_to_job_termination_reason(run_termination_reason) ==
    CASE run_termination_reason = "ALL_JOBS_DONE" -> "DONE_BY_RUNNER"
      [] run_termination_reason = "JOB_FAILED" -> "TERMINATED_BY_SERVER"
      [] run_termination_reason = "RETRY_LIMIT_EXCEEDED" -> "TERMINATED_BY_SERVER"
      [] run_termination_reason = "STOPPED_BY_USER" -> "TERMINATED_BY_USER"
      [] run_termination_reason = "ABORTED_BY_USER" -> "ABORTED_BY_USER"

\* mutant: RETRY_LIMIT_EXCEEDED ends as TERMINATED
run_termination_reason_to_status_retry_terminated(run_termination_reason) ==
    CASE run_termination_reason = "ALL_JOBS_DONE" -> "DONE"
      [] run_termination_reason = "JOB_FAILED" -> "FAILED"
      [] run_termination_reason = "RETRY_LIMIT_EXCEEDED" -> "TERMINATED"
      [] run_termination_reason = "STOPPED_BY_USER" -> "TERMINATED"
      [] run_termination_reason = "ABORTED_BY_USER" -> "TERMINATED"

\* runs.py:764-772
run_termination_reason_to_status(run_termination_reason) ==
    CASE run_termination_reason = "ALL_JOBS_DONE" -> "DONE"
      [] run_termination_reason = "JOB_FAILED" -> "FAILED"
      [] run_termination_reason = "RETRY_LIMIT_EXCEEDED" -> "FAILED"
      [] run_termination_reason = "STOPPED_BY_USER" -> "TERMINATED"
      [] run_termination_reason = "ABORTED_BY_USER" -> "TERMINATED"

\* JobTerminationReason.to_status(): the final status a terminating job takes
\* (spec 4.5: TERMINATING -> DONE | FAILED | TERMINATED | ABORTED by reason)
job_termination_reason_to_status(reason) ==
    CASE reason = "DONE_BY_RUNNER" -> "DONE"
      [] reason = "TERMINATED_BY_SERVER" -> "TERMINATED"
      [] reason = "TERMINATED_BY_USER" -> "TERMINATED"
      [] reason = "ABORTED_BY_USER" -> "ABORTED"
      [] reason = "CONTAINER_EXITED_WITH_ERROR" -> "FAILED"
      [] OTHER -> "FAILED"

\* ------------------------------------------------------------------- state

VARIABLES
    runs,                            \* RunModel rows: id -> [status, termination_reason]
    jobs,                            \* JobModel rows: id -> [status, termination_reason]
    PROCESSING_RUNS_IDS,             \* runs.py:115
    RUNNING_PROCESSING_JOBS_IDS,     \* services/jobs
    SUBMITTED_PROCESSING_JOBS_IDS,
    TERMINATING_PROCESSING_JOBS_IDS,
    pc,                              \* task -> position in stop_run / process_runs
    call,                            \* task -> [run, abort, kind] of the current call
    run_obj,                         \* task -> the session's RunModel object (or NoRunObj)
    job_objs,                        \* task -> the session's JobModel objects of run.jobs
    loop,                            \* task -> [todo, job, unfinished_jobs_count, ...]
    result,                          \* task -> outcome of the task's last call
    planned_offers,                  \* what get_offers_by_requirements returns
    ci,                              \* the create_instance call
    instances,                       \* committed InstanceModel rows
    configs,                         \* Nginx.configs: domain -> config (or None)
    files,                           \* CONFIGS_DIR: domain -> file content (or None)
    lock,                            \* Nginx._lock: the task holding it (or Unlocked)
    gw,                              \* gateway task -> its call on Nginx
    run_rows,                        \* committed RunModel rows of the project, by id
    job_rows,                        \* committed JobModel rows
    pool_rows,                       \* names of the committed PoolModel rows
    name_lock,                       \* _PROJECTS_TO_RUN_NAMES_LOCK[project.name]
    sub,                             \* task -> its submit_run / delete_runs / get_run_plan
    listed_runs,                     \* run -> status of the RunModel rows stop_runs selects from
    requests,                        \* request -> its stop_runs call and session
    coroutines,                      \* request -> run -> position of stop_run(session, run, abort)
    plan                             \* the get_run_plan call building a job plan

runVars == <<runs, jobs>>
lockVars == <<PROCESSING_RUNS_IDS, RUNNING_PROCESSING_JOBS_IDS,
              SUBMITTED_PROCESSING_JOBS_IDS, TERMINATING_PROCESSING_JOBS_IDS>>
jobLockVars == <<RUNNING_PROCESSING_JOBS_IDS, SUBMITTED_PROCESSING_JOBS_IDS,
                 TERMINATING_PROCESSING_JOBS_IDS>>
taskVars == <<pc, call, run_obj, job_objs, loop, result>>
terminationVars == <<runVars, lockVars, taskVars>>
createVars == <<planned_offers, ci, instances>>
gatewayVars == <<configs, files, lock, gw>>
submitVars == <<run_rows, job_rows, pool_rows, name_lock, sub>>
gatherVars == <<listed_runs, requests, coroutines>>
planVars == <<plan>>
restOfTermination == <<createVars, gatewayVars, submitVars, gatherVars, planVars>>
restOfCreate == <<terminationVars, gatewayVars, submitVars, gatherVars, planVars>>
restOfGateway == <<terminationVars, createVars, submitVars, gatherVars, planVars>>
restOfSubmit == <<terminationVars, createVars, gatewayVars, gatherVars, planVars>>
restOfGather == <<runVars, jobLockVars, taskVars, createVars, gatewayVars, submitVars,
                 planVars>>
restOfPlan == <<terminationVars, createVars, gatewayVars, submitVars, gatherVars>>
vars == <<runs, jobs, PROCESSING_RUNS_IDS, RUNNING_PROCESSING_JOBS_IDS,
          SUBMITTED_PROCESSING_JOBS_IDS, TERMINATING_PROCESSING_JOBS_IDS,
          pc, call, run_obj, job_objs, loop, result,
          planned_offers, ci, instances, configs, files, lock, gw,
          run_rows, job_rows, pool_rows, name_lock, sub,
          listed_runs, requests, coroutines, plan>>

\* a task whose session holds no RunModel object
NoRunObj == [status |-> None, termination_reason |-> None]
NoCall == [run |-> 0, abort |-> FALSE, kind |-> None]
NoLoop == [todo |-> {}, job |-> 0, unfinished_jobs_count |-> 0,
           job_termination_reason |-> None, unregister_service |-> None,
           last_processed_at |-> {}]

\* submit_run leaves a run SUBMITTED with SUBMITTED jobs (runs.py:338, 360)
InitTermination ==
    /\ runs = [r \in Runs |-> [status |-> "SUBMITTED", termination_reason |-> None]]
    /\ jobs = [j \in Jobs |-> [status |-> "SUBMITTED", termination_reason |-> None]]
    /\ PROCESSING_RUNS_IDS = {}
    /\ RUNNING_PROCESSING_JOBS_IDS = {}
    /\ SUBMITTED_PROCESSING_JOBS_IDS = {}
    /\ TERMINATING_PROCESSING_JOBS_IDS = {}
    /\ pc = [t \in Tasks |-> "idle"]
    /\ call = [t \in Tasks |-> NoCall]
    /\ run_obj = [t \in Tasks |-> NoRunObj]
    /\ job_objs = [t \in Tasks |-> <<>>]
    /\ loop = [t \in Tasks |-> NoLoop]
    /\ result = [t \in Tasks |-> None]

\* no create_instance call is in progress
NoCreateInstance ==
    [pc |-> "idle", offers |-> <<>>, idx |-> 0, pool |-> None, compute_calls |-> <<>>,
     session_new |-> {}, error |-> None, returned |-> None]

\* Nginx._lock when no task holds it
Unlocked == 0

\* a domain without an entry in Nginx.configs; a path without a file
NoConfig == [type |-> "none"]
NoFile == [template |-> "none"]

\* no call on Nginx is in progress; `before` is what the call found when it
\* took the lock, `failed` the commands of the call that have failed
NoBefore == [file |-> NoFile, configs |-> <<>>]
NoGatewayCall ==
    [pc |-> "idle", op |-> None, domain |-> 0, replica_id |-> 0, server |-> 0,
     conf |-> NoConfig, old_conf |-> NoFile, before |-> NoBefore, failed |-> {},
     error |-> None, result |-> None]

\* nginx.py:53-56: a new Nginx has no configs, and its sites directory no file
InitGateway ==
    /\ configs = [d \in Domains |-> NoConfig]
    /\ files = [d \in Domains |-> NoFile]
    /\ lock = Unlocked
    /\ gw = [t \in GatewayTasks |-> NoGatewayCall]

\* a run_spec without run_name; the run_name that fails _validate_run_name
NoRunName == <<0, 0>>
InvalidRunName == <<0, 1>>

\* no submit_run, delete_runs or get_run_plan call is in progress
NoSubmitCall ==
    [pc |-> "idle", op |-> None, project_id |-> 0, run_name |-> NoRunName,
     runs_names |-> {}, run_models |-> {},
     configuration |-> [type |-> "task", min |-> 1, max |-> 1],
     pool_name |-> None, run_name_base |-> 0, idx |-> 0, to_delete |-> {},
     soft_deleted |-> {}, session_new |-> {}, registered |-> FALSE,
     inserted |-> 0, error |-> None, result |-> None]

\* a project with its default pool and no run yet
InitSubmit ==
    /\ run_rows = <<>>
    /\ job_rows = {}
    /\ pool_rows = {"default"}
    /\ name_lock = Unlocked
    /\ sub = [t \in SubmitTasks |-> NoSubmitCall]

\* no stop_runs call is in progress
NoStopRuns == [pc |-> "idle", session |-> 0, runs_names |-> {}, abort |-> FALSE]

\* the project's runs are active and no request is being served
InitGather ==
    /\ listed_runs = [r \in ListedRuns |-> "RUNNING"]
    /\ requests = [q \in StopRequests |-> NoStopRuns]
    /\ coroutines = [q \in StopRequests |-> [r \in ListedRuns |-> "none"]]

\* JobPlan.max_price of a plan without offers (runs.py:252, default=None)
NoPrice == 0 - 1

\* no get_run_plan call is building a job plan
NoJobPlan == [offers |-> <<>>, total_offers |-> 0, max_price |-> NoPrice]
NoPlan ==
    [pc |-> "idle", creation_policy |-> None, pool_offers |-> <<>>, offers |-> <<>>,
     job_plan |-> NoJobPlan]

Init ==
    /\ InitTermination
    /\ planned_offers = <<>>
    /\ ci = NoCreateInstance
    /\ instances = {}
    /\ InitGateway
    /\ InitSubmit
    /\ InitGather
    /\ plan = NoPlan

Min(S) == CHOOSE x \in S : \A y \in S : x <= y

AllProcessingJobsIds ==
    RUNNING_PROCESSING_JOBS_IDS \cup SUBMITTED_PROCESSING_JOBS_IDS
        \cup TERMINATING_PROCESSING_JOBS_IDS

\* ------------------------------------------------- processing-set helpers

\* server/utils/common.py wait_to_lock(lock, locked, key): under the mutex, the
\* key is added once it is not in the set; the caller polls until then
wait_to_lock(locked, key) == key \notin locked

\* server/utils/common.py wait_unlock(lock, locked, keys): returns once none of
\* the keys is in the set; the caller polls until then
wait_unlock(locked, keys) == keys \cap locked = {}

StartCall(t, r, abort, kind) ==
    /\ call' = [call EXCEPT ![t] = [run |-> r, abort |-> abort, kind |-> kind]]
    /\ result' = [result EXCEPT ![t] = None]

\* the call ends: its session objects are dropped
EndCall(t, outcome) ==
    /\ call' = [call EXCEPT ![t] = NoCall]
    /\ result' = [result EXCEPT ![t] = outcome]
    /\ run_obj' = [run_obj EXCEPT ![t] = NoRunObj]
    /\ job_objs' = [job_objs EXCEPT ![t] = <<>>]
    /\ loop' = [loop EXCEPT ![t] = NoLoop]

\* -------------------------------------------------------------- stop_run

\* stop_runs (runs.py:404-413): select the unfinished runs of the given names
\* and start stop_run(session, run, abort) for each
stop_runs(t, r, abort) ==
    /\ pc[t] = "idle"
    /\ ~RunIsFinished(runs[r].status)
    /\ pc' = [pc EXCEPT ![t] = "wait_to_lock"]
    /\ StartCall(t, r, abort, "stop_run")
    /\ UNCHANGED <<restOfTermination, runVars, lockVars, run_obj, job_objs, loop>>

\* runs.py:417: await wait_to_lock(PROCESSING_RUNS_LOCK, PROCESSING_RUNS_IDS, run.id)
stop_run_wait_to_lock(t) ==
    /\ pc[t] = "wait_to_lock"
    /\ wait_to_lock(PROCESSING_RUNS_IDS, call[t].run)
    /\ PROCESSING_RUNS_IDS' = PROCESSING_RUNS_IDS \cup {call[t].run}
    /\ pc' = [pc EXCEPT ![t] = "refresh"]
    /\ UNCHANGED <<restOfTermination, runVars, jobLockVars, call, run_obj, job_objs, loop, result>>

\* mutant: wait_to_lock awaited inside the try block, so a cancelled waiter
\* runs the finally block
stop_run_cancel_wait_in_try(t) ==
    /\ pc[t] = "wait_to_lock"
    /\ result' = [result EXCEPT ![t] = "cancelled"]
    /\ pc' = [pc EXCEPT ![t] = "finally"]
    /\ UNCHANGED <<restOfTermination, runVars, lockVars, call, run_obj, job_objs, loop>>

\* cancellation while polling in wait_to_lock (runs.py:417 is outside the try):
\* the id was not added by this call and the finally block does not run
stop_run_cancel_wait(t) ==
    /\ pc[t] = "wait_to_lock"
    /\ pc' = [pc EXCEPT ![t] = "idle"]
    /\ EndCall(t, "cancelled")
    /\ UNCHANGED <<restOfTermination, runVars, lockVars>>

\* mutant: no is_finished() check after the refresh
stop_run_refresh_no_check(t) ==
    /\ pc[t] = "refresh"
    /\ run_obj' = [run_obj EXCEPT ![t] =
            [status |-> "TERMINATING",
             termination_reason |->
                IF call[t].abort THEN "ABORTED_BY_USER" ELSE "STOPPED_BY_USER"]]
    /\ pc' = [pc EXCEPT ![t] = "commit"]
    /\ UNCHANGED <<restOfTermination, runVars, lockVars, call, job_objs, loop, result>>

\* runs.py:420-428: refresh the run; return if finished, else mark TERMINATING
stop_run_refresh(t) ==
    /\ pc[t] = "refresh"
    /\ LET run == runs[call[t].run] IN
         IF RunIsFinished(run.status)
         THEN /\ run_obj' = [run_obj EXCEPT ![t] = run]
              /\ result' = [result EXCEPT ![t] = "finished"]
              /\ pc' = [pc EXCEPT ![t] = "finally"]
         ELSE /\ run_obj' = [run_obj EXCEPT ![t] =
                    [status |-> "TERMINATING",
                     termination_reason |->
                        IF call[t].abort THEN "ABORTED_BY_USER" ELSE "STOPPED_BY_USER"]]
              /\ result' = result
              /\ pc' = [pc EXCEPT ![t] = "commit"]
    /\ UNCHANGED <<restOfTermination, runVars, lockVars, call, job_objs, loop>>

\* runs.py:429-432 and 703-706: commit the TERMINATING run, enter
\* process_terminating_run, which computes the job reason and the job ids
stop_run_commit(t) ==
    /\ pc[t] = "commit"
    /\ runs' = [runs EXCEPT ![call[t].run] = run_obj[t]]
    /\ loop' = [loop EXCEPT ![t] = [NoLoop EXCEPT !.job_termination_reason =
                    run_to_job_termination_reason(run_obj[t].termination_reason)]]
    /\ pc' = [pc EXCEPT ![t] = "wait_unlock_running"]
    /\ UNCHANGED <<restOfTermination, jobs, lockVars, call, run_obj, job_objs, result>>

\* ------------------------------------------------ process_terminating_run

\* mutant: process_terminating_run does not wait on the RUNNING job set
wait_unlock_running_skipped(t) ==
    /\ pc[t] = "wait_unlock_running"
    /\ pc' = [pc EXCEPT ![t] = "wait_unlock_submitted"]
    /\ UNCHANGED <<restOfTermination, runVars, lockVars, call, run_obj, job_objs, loop, result>>

\* runs.py:706
wait_unlock_running(t) ==
    /\ pc[t] = "wait_unlock_running"
    /\ wait_unlock(RUNNING_PROCESSING_JOBS_IDS, JobsOf(call[t].run))
    /\ pc' = [pc EXCEPT ![t] = "wait_unlock_submitted"]
    /\ UNCHANGED <<restOfTermination, runVars, lockVars, call, run_obj, job_objs, loop, result>>

\* runs.py:707
wait_unlock_submitted(t) ==
    /\ pc[t] = "wait_unlock_submitted"
    /\ wait_unlock(SUBMITTED_PROCESSING_JOBS_IDS, JobsOf(call[t].run))
    /\ pc' = [pc EXCEPT ![t] = "wait_unlock_terminating"]
    /\ UNCHANGED <<restOfTermination, runVars, lockVars, call, run_obj, job_objs, loop, result>>

\* runs.py:708-710
wait_unlock_terminating(t) ==
    /\ pc[t] = "wait_unlock_terminating"
    /\ wait_unlock(TERMINATING_PROCESSING_JOBS_IDS, JobsOf(call[t].run))
    /\ pc' = [pc EXCEPT ![t] = "ptr_refresh"]
    /\ UNCHANGED <<restOfTermination, runVars, lockVars, call, run_obj, job_objs, loop, result>>

\* runs.py:711-713: await session.refresh(run) reloads the run and run.jobs
ptr_refresh(t) ==
    /\ pc[t] = "ptr_refresh"
    /\ run_obj' = [run_obj EXCEPT ![t] = runs[call[t].run]]
    /\ job_objs' = [job_objs EXCEPT ![t] = [j \in JobsOf(call[t].run) |-> jobs[j]]]
    /\ loop' = [loop EXCEPT ![t].todo = JobsOf(call[t].run),
                            ![t].unfinished_jobs_count = 0]
    /\ pc' = [pc EXCEPT ![t] = "jobs_loop"]
    /\ UNCHANGED <<restOfTermination, runVars, lockVars, call, result>>

SetTerminating(t, j) ==
    [job_objs EXCEPT ![t][j] = [status |-> "TERMINATING",
                                termination_reason |-> loop[t].job_termination_reason]]

\* mutant: the graceful stop signal is never sent (the RUNNING branch is lost)
ptr_jobs_loop_no_signal(t) ==
    /\ pc[t] = "jobs_loop"
    /\ loop[t].todo # {}
    /\ LET job == Min(loop[t].todo)
           status == job_objs[t][job].status
           rest == loop[t].todo \ {job}
           count == loop[t].unfinished_jobs_count
       IN
         IF JobIsFinished(status)
         THEN /\ loop' = [loop EXCEPT ![t].todo = rest]
              /\ UNCHANGED <<pc, job_objs>>
         ELSE IF status = "TERMINATING"
         THEN /\ loop' = [loop EXCEPT ![t].todo = rest,
                                      ![t].unfinished_jobs_count = count + 1]
              /\ UNCHANGED <<pc, job_objs>>
         ELSE /\ loop' = [loop EXCEPT ![t].todo = rest, ![t].job = job,
                                      ![t].unfinished_jobs_count = count + 1]
              /\ job_objs' = SetTerminating(t, job)
              /\ pc' = [pc EXCEPT ![t] = "process_terminating_job"]
    /\ UNCHANGED <<restOfTermination, runVars, lockVars, call, run_obj, result>>

\* mutant: a RUNNING job is signalled whatever the termination reason
ptr_jobs_loop_always_signal(t) ==
    /\ pc[t] = "jobs_loop"
    /\ loop[t].todo # {}
    /\ LET job == Min(loop[t].todo)
           status == job_objs[t][job].status
           rest == loop[t].todo \ {job}
           count == loop[t].unfinished_jobs_count
       IN
         IF JobIsFinished(status)
         THEN /\ loop' = [loop EXCEPT ![t].todo = rest]
              /\ UNCHANGED <<pc, job_objs>>
         ELSE IF status = "TERMINATING"
         THEN /\ loop' = [loop EXCEPT ![t].todo = rest,
                                      ![t].unfinished_jobs_count = count + 1]
              /\ UNCHANGED <<pc, job_objs>>
         ELSE IF status = "RUNNING"
         THEN /\ loop' = [loop EXCEPT ![t].todo = rest, ![t].job = job,
                                      ![t].unfinished_jobs_count = count + 1]
              /\ pc' = [pc EXCEPT ![t] = "stop_runner"]
              /\ UNCHANGED job_objs
         ELSE /\ loop' = [loop EXCEPT ![t].todo = rest, ![t].job = job,
                                      ![t].unfinished_jobs_count = count + 1]
              /\ job_objs' = SetTerminating(t, job)
              /\ pc' = [pc EXCEPT ![t] = "process_terminating_job"]
    /\ UNCHANGED <<restOfTermination, runVars, lockVars, call, run_obj, result>>

\* mutant: a job that is already TERMINATING is not skipped
ptr_jobs_loop_no_skip(t) ==
    /\ pc[t] = "jobs_loop"
    /\ loop[t].todo # {}
    /\ LET job == Min(loop[t].todo)
           status == job_objs[t][job].status
           rest == loop[t].todo \ {job}
           count == loop[t].unfinished_jobs_count
       IN
         IF JobIsFinished(status)
         THEN /\ loop' = [loop EXCEPT ![t].todo = rest]
              /\ UNCHANGED <<pc, job_objs>>
         ELSE IF /\ status = "RUNNING"
                 /\ loop[t].job_termination_reason
                        \notin {"ABORTED_BY_USER", "DONE_BY_RUNNER"}
         THEN /\ loop' = [loop EXCEPT ![t].todo = rest, ![t].job = job,
                                      ![t].unfinished_jobs_count = count + 1]
              /\ pc' = [pc EXCEPT ![t] = "stop_runner"]
              /\ UNCHANGED job_objs
         ELSE /\ loop' = [loop EXCEPT ![t].todo = rest, ![t].job = job,
                                      ![t].unfinished_jobs_count = count + 1]
              /\ job_objs' = SetTerminating(t, job)
              /\ pc' = [pc EXCEPT ![t] = "process_terminating_job"]
    /\ UNCHANGED <<restOfTermination, runVars, lockVars, call, run_obj, result>>

\* runs.py:715-730: the head of one iteration of `for job in run.jobs`
ptr_jobs_loop(t) ==
    /\ pc[t] = "jobs_loop"
    /\ loop[t].todo # {}
    /\ LET job == Min(loop[t].todo)
           status == job_objs[t][job].status
           rest == loop[t].todo \ {job}
           count == loop[t].unfinished_jobs_count
       IN
         IF JobIsFinished(status)
         THEN /\ loop' = [loop EXCEPT ![t].todo = rest]
              /\ UNCHANGED <<pc, job_objs>>
         ELSE IF status = "TERMINATING"
         THEN /\ loop' = [loop EXCEPT ![t].todo = rest,
                                      ![t].unfinished_jobs_count = count + 1]
              /\ UNCHANGED <<pc, job_objs>>
         ELSE IF /\ status = "RUNNING"
                 /\ loop[t].job_termination_reason
                        \notin {"ABORTED_BY_USER", "DONE_BY_RUNNER"}
         THEN /\ loop' = [loop EXCEPT ![t].todo = rest, ![t].job = job,
                                      ![t].unfinished_jobs_count = count + 1]
              /\ pc' = [pc EXCEPT ![t] = "stop_runner"]
              /\ UNCHANGED job_objs
         ELSE /\ loop' = [loop EXCEPT ![t].todo = rest, ![t].job = job,
                                      ![t].unfinished_jobs_count = count + 1]
              /\ job_objs' = SetTerminating(t, job)
              /\ pc' = [pc EXCEPT ![t] = "process_terminating_job"]
    /\ UNCHANGED <<restOfTermination, runVars, lockVars, call, run_obj, result>>

\* runs.py:728-731: stop_runner returned; the job is marked TERMINATING
ptr_stop_runner(t) ==
    /\ pc[t] = "stop_runner"
    /\ job_objs' = SetTerminating(t, loop[t].job)
    /\ pc' = [pc EXCEPT ![t] = "process_terminating_job"]
    /\ UNCHANGED <<restOfTermination, runVars, lockVars, call, run_obj, loop, result>>

\* services/jobs process_terminating_job(session, job): either finishes the job
\* with the status of its termination reason or leaves it TERMINATING
process_terminating_job(job, finished) ==
    IF finished
    THEN [job EXCEPT !.status = job_termination_reason_to_status(job.termination_reason)]
    ELSE job

\* runs.py:731-734: process_terminating_job returned; the jobs whose
\* last_processed_at the call has set are kept in loop[t].last_processed_at
ptr_process_terminating_job(t) ==
    /\ pc[t] = "process_terminating_job"
    /\ \E finished \in BOOLEAN :
         LET job == process_terminating_job(job_objs[t][loop[t].job], finished) IN
           /\ job_objs' = [job_objs EXCEPT ![t][loop[t].job] = job]
           /\ loop' = [loop EXCEPT ![t].job = 0,
                         ![t].unfinished_jobs_count =
                            IF JobIsFinished(job.status) THEN @ - 1 ELSE @,
                         ![t].last_processed_at = @ \cup {loop[t].job}]
    /\ pc' = [pc EXCEPT ![t] = "jobs_loop"]
    /\ UNCHANGED <<restOfTermination, runVars, lockVars, call, run_obj, result>>

\* mutant: the final status is set without looking at unfinished_jobs_count
ptr_finalize_always(t, gateway_id) ==
    /\ pc[t] = "jobs_loop"
    /\ loop[t].todo = {}
    /\ run_obj' = [run_obj EXCEPT ![t] =
            [run_obj[t] EXCEPT !.status =
                run_termination_reason_to_status(run_obj[t].termination_reason)]]
    /\ pc' = [pc EXCEPT ![t] = "commit_processed"]
    /\ UNCHANGED <<restOfTermination, runVars, lockVars, call, job_objs, loop, result>>

\* runs.py:736-748 and 434: when no job is left unfinished, the service of a
\* run with a gateway_id (a service run, registered by submit_run) is
\* unregistered first, and the final run status is set; otherwise control
\* returns to the caller, which commits
ptr_finalize(t, gateway_id) ==
    /\ pc[t] = "jobs_loop"
    /\ loop[t].todo = {}
    /\ IF loop[t].unfinished_jobs_count = 0 /\ gateway_id
       THEN /\ pc' = [pc EXCEPT ![t] = "unregister_service"]
            /\ run_obj' = run_obj
       ELSE /\ pc' = [pc EXCEPT ![t] = "commit_processed"]
            /\ run_obj' = [run_obj EXCEPT ![t] =
                   IF loop[t].unfinished_jobs_count = 0
                   THEN [run_obj[t] EXCEPT !.status =
                           run_termination_reason_to_status(run_obj[t].termination_reason)]
                   ELSE run_obj[t]]
    /\ UNCHANGED <<restOfTermination, runVars, lockVars, call, job_objs, loop, result>>

\* mutant: no try/except around unregister_service, its exception leaves
\* process_terminating_run
ptr_unregister_service_no_except(t, raised) ==
    /\ pc[t] = "unregister_service"
    /\ loop' = [loop EXCEPT ![t].unregister_service =
                    IF raised THEN "raised" ELSE "returned"]
    /\ IF raised
       THEN /\ result' = [result EXCEPT ![t] = "raised"]
            /\ pc' = [pc EXCEPT ![t] = "finally"]
            /\ run_obj' = run_obj
       ELSE /\ result' = result
            /\ pc' = [pc EXCEPT ![t] = "commit_processed"]
            /\ run_obj' = [run_obj EXCEPT ![t] =
                   [run_obj[t] EXCEPT !.status =
                       run_termination_reason_to_status(run_obj[t].termination_reason)]]
    /\ UNCHANGED <<restOfTermination, runVars, lockVars, call, job_objs>>

\* runs.py:738-742: gateways.unregister_service returns or raises an
\* Exception, which is logged; then the final run status is set
ptr_unregister_service(t, raised) ==
    /\ pc[t] = "unregister_service"
    /\ loop' = [loop EXCEPT ![t].unregister_service =
                    IF raised THEN "raised" ELSE "returned"]
    /\ run_obj' = [run_obj EXCEPT ![t] =
            [run_obj[t] EXCEPT !.status =
                run_termination_reason_to_status(run_obj[t].termination_reason)]]
    /\ pc' = [pc EXCEPT ![t] = "commit_processed"]
    /\ UNCHANGED <<restOfTermination, runVars, lockVars, call, job_objs, result>>

\* runs.py:435: await session.commit() writes the run and its jobs
stop_run_commit_processed(t) ==
    /\ pc[t] = "commit_processed"
    /\ runs' = [runs EXCEPT ![call[t].run] = run_obj[t]]
    /\ jobs' = [j \in Jobs |-> IF j \in DOMAIN job_objs[t] THEN job_objs[t][j] ELSE jobs[j]]
    /\ result' = [result EXCEPT ![t] = "returned"]
    /\ pc' = [pc EXCEPT ![t] = "finally"]
    /\ UNCHANGED <<restOfTermination, lockVars, call, run_obj, job_objs, loop>>

\* the awaits inside the try block (runs.py:420-435)
InTryAwait == {"refresh", "commit", "wait_unlock_running", "wait_unlock_submitted",
               "wait_unlock_terminating", "ptr_refresh", "stop_runner",
               "process_terminating_job", "unregister_service", "commit_processed"}

\* mutant: no try/finally around the critical section
stop_run_raise_no_finally(t) ==
    /\ pc[t] \in InTryAwait
    /\ \E outcome \in {"raised", "cancelled"} : EndCall(t, outcome)
    /\ pc' = [pc EXCEPT ![t] = "idle"]
    /\ UNCHANGED <<restOfTermination, runVars, lockVars>>

\* an await inside the try raises, or the task is cancelled there: control
\* passes to the finally block (runs.py:436) and nothing more is committed
stop_run_raise(t) ==
    /\ pc[t] \in InTryAwait
    /\ \E outcome \in {"raised", "cancelled"} :
         result' = [result EXCEPT ![t] = outcome]
    /\ pc' = [pc EXCEPT ![t] = "finally"]
    /\ UNCHANGED <<restOfTermination, runVars, lockVars, call, run_obj, job_objs, loop>>

\* mutant: the finally block does not remove the run id
stop_run_finally_keeps_id(t) ==
    /\ pc[t] = "finally"
    /\ pc' = [pc EXCEPT ![t] = "idle"]
    /\ EndCall(t, result[t])
    /\ UNCHANGED <<restOfTermination, runVars, lockVars>>

\* runs.py:436-437: PROCESSING_RUNS_IDS.remove(run.id)
stop_run_finally(t) ==
    /\ pc[t] = "finally"
    /\ PROCESSING_RUNS_IDS' = PROCESSING_RUNS_IDS \ {call[t].run}
    /\ pc' = [pc EXCEPT ![t] = "idle"]
    /\ EndCall(t, result[t])
    /\ UNCHANGED <<restOfTermination, runVars, jobLockVars>>

\* ------------------------------------------- background reconcilers (4.8)

\* process_runs: takes a TERMINATING run that is not being processed, adds its
\* id to PROCESSING_RUNS_IDS and calls process_terminating_run, then commits
\* and removes the id in its finally block
process_runs_take(t, r) ==
    /\ pc[t] = "idle"
    /\ r \notin PROCESSING_RUNS_IDS
    /\ runs[r].status = "TERMINATING"
    /\ PROCESSING_RUNS_IDS' = PROCESSING_RUNS_IDS \cup {r}
    /\ StartCall(t, r, FALSE, "process_runs")
    /\ run_obj' = [run_obj EXCEPT ![t] = runs[r]]
    /\ loop' = [loop EXCEPT ![t] = [NoLoop EXCEPT !.job_termination_reason =
                    run_to_job_termination_reason(runs[r].termination_reason)]]
    /\ pc' = [pc EXCEPT ![t] = "wait_unlock_running"]
    /\ UNCHANGED <<restOfTermination, runVars, jobLockVars, job_objs>>

\* process_runs on an active run: when a job has failed or every job is done
\* the run becomes TERMINATING with the matching reason
process_runs_active(r) ==
    /\ r \notin PROCESSING_RUNS_IDS
    /\ ~RunIsFinished(runs[r].status)
    /\ runs[r].status # "TERMINATING"
    /\ \E reason \in {"ALL_JOBS_DONE", "JOB_FAILED", "RETRY_LIMIT_EXCEEDED"} :
         /\ reason = "ALL_JOBS_DONE" => \A j \in JobsOf(r) : jobs[j].status = "DONE"
         /\ reason # "ALL_JOBS_DONE" => \E j \in JobsOf(r) : jobs[j].status = "FAILED"
         /\ runs' = [runs EXCEPT ![r] = [status |-> "TERMINATING",
                                         termination_reason |-> reason]]
    /\ UNCHANGED <<restOfTermination, jobs, lockVars, taskVars>>

\* the job statuses each job reconciler selects
PhaseStatuses(phase) ==
    CASE phase = "SUBMITTED" -> {"SUBMITTED"}
      [] phase = "RUNNING" -> {"PROVISIONING", "RUNNING"}
      [] phase = "TERMINATING" -> {"TERMINATING"}

\* a job reconciler takes a job: its id is in no job-processing set and its run
\* is not in PROCESSING_RUNS_IDS (runs.py:110-112)
process_jobs_take(j, phase) ==
    /\ jobs[j].status \in PhaseStatuses(phase)
    /\ j \notin AllProcessingJobsIds
    /\ RunOf(j) \notin PROCESSING_RUNS_IDS
    /\ SUBMITTED_PROCESSING_JOBS_IDS' =
          IF phase = "SUBMITTED" THEN SUBMITTED_PROCESSING_JOBS_IDS \cup {j}
          ELSE SUBMITTED_PROCESSING_JOBS_IDS
    /\ RUNNING_PROCESSING_JOBS_IDS' =
          IF phase = "RUNNING" THEN RUNNING_PROCESSING_JOBS_IDS \cup {j}
          ELSE RUNNING_PROCESSING_JOBS_IDS
    /\ TERMINATING_PROCESSING_JOBS_IDS' =
          IF phase = "TERMINATING" THEN TERMINATING_PROCESSING_JOBS_IDS \cup {j}
          ELSE TERMINATING_PROCESSING_JOBS_IDS
    /\ UNCHANGED <<restOfTermination, runVars, PROCESSING_RUNS_IDS, taskVars>>

\* the transitions of the job state machine (4.5) a reconciler may commit for
\* the job it holds
JobTransitions(job) ==
    CASE job.status = "SUBMITTED" ->
            {job, [job EXCEPT !.status = "PROVISIONING"]}
      [] job.status = "PROVISIONING" ->
            {job, [job EXCEPT !.status = "RUNNING"]}
      [] job.status = "RUNNING" ->
            {job,
             [status |-> "TERMINATING", termination_reason |-> "DONE_BY_RUNNER"],
             [status |-> "TERMINATING", termination_reason |-> "CONTAINER_EXITED_WITH_ERROR"]}
      [] job.status = "TERMINATING" ->
            {job, process_terminating_job(job, TRUE)}
      [] OTHER -> {job}

\* the job reconciler holding j commits a transition and releases the id
process_jobs_done(j) ==
    /\ j \in AllProcessingJobsIds
    /\ \E job \in JobTransitions(jobs[j]) : jobs' = [jobs EXCEPT ![j] = job]
    /\ SUBMITTED_PROCESSING_JOBS_IDS' = SUBMITTED_PROCESSING_JOBS_IDS \ {j}
    /\ RUNNING_PROCESSING_JOBS_IDS' = RUNNING_PROCESSING_JOBS_IDS \ {j}
    /\ TERMINATING_PROCESSING_JOBS_IDS' = TERMINATING_PROCESSING_JOBS_IDS \ {j}
    /\ UNCHANGED <<restOfTermination, runs, PROCESSING_RUNS_IDS, taskVars>>

\* ---------------------------------------------------------- specification

Phases == {"SUBMITTED", "RUNNING", "TERMINATING"}

Next ==
    \/ \E t \in Tasks, r \in Runs, abort \in BOOLEAN : stop_runs(t, r, abort)
    \/ \E t \in Tasks : stop_run_wait_to_lock(t)
    \/ \E t \in Tasks : stop_run_cancel_wait(t)
    \/ \E t \in Tasks : stop_run_refresh(t)
    \/ \E t \in Tasks : stop_run_commit(t)
    \/ \E t \in Tasks : wait_unlock_running(t)
    \/ \E t \in Tasks : wait_unlock_submitted(t)
    \/ \E t \in Tasks : wait_unlock_terminating(t)
    \/ \E t \in Tasks : ptr_refresh(t)
    \/ \E t \in Tasks : ptr_jobs_loop(t)
    \/ \E t \in Tasks : ptr_stop_runner(t)
    \/ \E t \in Tasks : ptr_process_terminating_job(t)
    \/ \E t \in Tasks, gateway_id \in BOOLEAN : ptr_finalize(t, gateway_id)
    \/ \E t \in Tasks, raised \in BOOLEAN : ptr_unregister_service(t, raised)
    \/ \E t \in Tasks : stop_run_commit_processed(t)
    \/ \E t \in Tasks : stop_run_raise(t)
    \/ \E t \in Tasks : stop_run_finally(t)
    \/ \E t \in Tasks, r \in Runs : process_runs_take(t, r)
    \/ \E r \in Runs : process_runs_active(r)
    \/ \E j \in Jobs, phase \in Phases : process_jobs_take(j, phase)
    \/ \E j \in Jobs : process_jobs_done(j)

Spec == Init /\ [][Next]_vars

\* the steps a call takes on its own once it holds the run id: every await of
\* stop_run and process_terminating_run returns, and the finally block runs
Progress(t) ==
    \/ stop_run_refresh(t)
    \/ stop_run_commit(t)
    \/ wait_unlock_running(t)
    \/ wait_unlock_submitted(t)
    \/ wait_unlock_terminating(t)
    \/ ptr_refresh(t)
    \/ ptr_jobs_loop(t)
    \/ ptr_stop_runner(t)
    \/ ptr_process_terminating_job(t)
    \/ \E gateway_id \in BOOLEAN : ptr_finalize(t, gateway_id)
    \/ \E raised \in BOOLEAN : ptr_unregister_service(t, raised)
    \/ stop_run_commit_processed(t)
    \/ stop_run_finally(t)

\* the scheduling of the event loop: a task that can run is run; a task
\* polling in wait_to_lock finds the id free if it is free again and again;
\* a job reconciler holds a job id only for a finite time
Fairness ==
    /\ \A t \in Tasks : WF_vars(Progress(t))
    /\ \A t \in Tasks : SF_vars(stop_run_wait_to_lock(t))
    /\ \A j \in Jobs : WF_vars(process_jobs_done(j))

FairSpec == Spec /\ Fairness

\* ------------------------------------------------ claims: run termination

\* the task is inside the critical section of stop_run / process_runs: its run
\* id was added and its finally block has not yet removed it
InCriticalSection(t) == pc[t] \notin {"idle", "wait_to_lock"}

\* the task has passed the three waits of process_terminating_run
PastWaits == {"ptr_refresh", "jobs_loop", "stop_runner", "process_terminating_job",
              "unregister_service", "commit_processed"}

\* the positions inside the job loop of process_terminating_run and after it
InJobsLoop == {"jobs_loop", "stop_runner", "process_terminating_job",
               "unregister_service", "commit_processed"}

\* process_terminating_run of task t changes the status or reason of job j
PtrChangesJob(t, j) ==
    /\ j \in DOMAIN job_objs[t]
    /\ j \in DOMAIN job_objs'[t]
    /\ job_objs'[t][j] # job_objs[t][j]

\* C1: for any run id, at most one task at a time is inside the critical
\* section guarded by PROCESSING_RUNS_IDS, and the id is in the set while it is.
C1_OneTaskPerRun ==
    \A t1 \in Tasks :
        InCriticalSection(t1) =>
            /\ call[t1].run \in PROCESSING_RUNS_IDS
            /\ \A t2 \in Tasks :
                  (InCriticalSection(t2) /\ call[t2].run = call[t1].run) => t1 = t2

C1_Witness ==
    \E t1, t2 \in Tasks :
        /\ t1 # t2
        /\ InCriticalSection(t1)
        /\ call[t1].kind = "stop_run"
        /\ pc[t2] = "wait_to_lock"
        /\ call[t2].run = call[t1].run

\* C2 (as claimed): process_terminating_run changes a job only while the job
\* id is in no job-processing set, and no job reconciler changes a job of a run
\* whose id is in PROCESSING_RUNS_IDS.
C2_Original ==
    [][ /\ \A t \in Tasks, j \in Jobs :
              PtrChangesJob(t, j) => j \notin AllProcessingJobsIds
        /\ \A j \in Jobs :
              (j \in AllProcessingJobsIds /\ jobs'[j] # jobs[j])
                  => RunOf(j) \notin PROCESSING_RUNS_IDS ]_vars

\* C2 (amended): process_terminating_run changes a job only while the job id
\* is in no job-processing set; once it has passed its three waits, and until
\* the run id is removed, no job of the run is in a job-processing set; and a
\* job reconciler never takes a job whose run id is in PROCESSING_RUNS_IDS.
C2_RunPrecedence ==
    /\ [][ /\ \A t \in Tasks, j \in Jobs :
                 PtrChangesJob(t, j) => j \notin AllProcessingJobsIds
           /\ \A j \in Jobs :
                 (j \in AllProcessingJobsIds' /\ j \notin AllProcessingJobsIds)
                     => RunOf(j) \notin PROCESSING_RUNS_IDS ]_vars
    /\ [](\A t \in Tasks :
              pc[t] \in PastWaits
                  => JobsOf(call[t].run) \cap AllProcessingJobsIds = {})

C2_Witness ==
    \E t \in Tasks :
        /\ pc[t] = "process_terminating_job"
        /\ jobs[loop[t].job].status = "RUNNING"
        /\ job_objs[t][loop[t].job].status = "TERMINATING"

\* C3: every run id in PROCESSING_RUNS_IDS belongs to a call that is still
\* inside its critical section: a call that returned, raised or was cancelled
\* has left no id behind.
C3_InsertionPairedWithRemoval ==
    PROCESSING_RUNS_IDS = {call[t].run : t \in {u \in Tasks : InCriticalSection(u)}}

C3_Witness ==
    \E t1, t2 \in Tasks :
        /\ pc[t1] = "idle" /\ result[t1] = "raised"
        /\ pc[t2] = "idle" /\ result[t2] = "cancelled"
        /\ PROCESSING_RUNS_IDS = {}

\* C4 (as claimed): in every state a run's status is finished if and only if
\* every job of the run is finished.
C4_Original ==
    \A r \in Runs :
        RunIsFinished(runs[r].status)
            <=> \A j \in JobsOf(r) : JobIsFinished(jobs[j].status)

\* C4 (amended): in every state a run's status is finished only if every job
\* of the run is finished; and process_terminating_run hands back a finished
\* run status exactly when no job of the run is left unfinished.
C4_FinishedRunHasFinishedJobs ==
    /\ \A r \in Runs :
          RunIsFinished(runs[r].status)
              => \A j \in JobsOf(r) : JobIsFinished(jobs[j].status)
    /\ \A t \in Tasks :
          pc[t] = "commit_processed" =>
              (RunIsFinished(run_obj[t].status)
                  <=> \A j \in JobsOf(call[t].run) : JobIsFinished(job_objs[t][j].status))

C4_Witness ==
    \E t \in Tasks :
        /\ pc[t] = "commit_processed"
        /\ RunIsFinished(run_obj[t].status)
        /\ \E j \in JobsOf(call[t].run) : ~JobIsFinished(jobs[j].status)

\* the call of task t is stop_run(abort) on a run that has a RUNNING job when
\* process_terminating_run reads it
StopsRunningJob(t, abort) ==
    /\ call[t].kind = "stop_run"
    /\ call[t].abort = abort
    /\ \E j \in JobsOf(call[t].run) : jobs[j].status = "RUNNING"

C7_ShortCircuit ==
    [][ \A t \in Tasks :
          /\ ( /\ pc[t] = "refresh"
               /\ RunIsFinished(runs[call[t].run].status)
               /\ pc'[t] # pc[t] )
             => /\ pc'[t] = "finally"
                /\ result'[t] \in {"finished", "raised", "cancelled"}
                /\ runs' = runs /\ jobs' = jobs
          /\ ( /\ pc[t] = "finally"
               /\ result[t] = "finished"
               /\ pc'[t] # pc[t] )
             => /\ pc'[t] = "idle"
                /\ call[t].run \notin PROCESSING_RUNS_IDS'
                /\ runs' = runs /\ jobs' = jobs ]_vars

C7_Witness ==
    \E t \in Tasks : pc[t] = "idle" /\ result[t] = "finished"


\* the call of task t waits on a job-processing set for a job of its run
WaitsOnJobSet(t) ==
    \/ /\ pc[t] = "wait_unlock_running"
       /\ ~wait_unlock(RUNNING_PROCESSING_JOBS_IDS, JobsOf(call[t].run))
    \/ /\ pc[t] = "wait_unlock_submitted"
       /\ ~wait_unlock(SUBMITTED_PROCESSING_JOBS_IDS, JobsOf(call[t].run))
    \/ /\ pc[t] = "wait_unlock_terminating"
       /\ ~wait_unlock(TERMINATING_PROCESSING_JOBS_IDS, JobsOf(call[t].run))

FinalStatusTable ==
    {<<"ALL_JOBS_DONE", "DONE">>, <<"JOB_FAILED", "FAILED">>,
     <<"RETRY_LIMIT_EXCEEDED", "FAILED">>, <<"STOPPED_BY_USER", "TERMINATED">>,
     <<"ABORTED_BY_USER", "TERMINATED">>}
JobReasonTable ==
    {<<"ALL_JOBS_DONE", "DONE_BY_RUNNER">>, <<"JOB_FAILED", "TERMINATED_BY_SERVER">>,
     <<"RETRY_LIMIT_EXCEEDED", "TERMINATED_BY_SERVER">>,
     <<"STOPPED_BY_USER", "TERMINATED_BY_USER">>,
     <<"ABORTED_BY_USER", "ABORTED_BY_USER">>}

\* C22: a run leaves TERMINATING only for the status its termination reason
\* maps to (ALL_JOBS_DONE -> DONE, JOB_FAILED and RETRY_LIMIT_EXCEEDED ->
\* FAILED, STOPPED_BY_USER and ABORTED_BY_USER -> TERMINATED), keeping that
\* reason; and a job that process_terminating_run marks TERMINATING gets the
\* reason the run's reason maps to (ALL_JOBS_DONE -> DONE_BY_RUNNER,
\* JOB_FAILED and RETRY_LIMIT_EXCEEDED -> TERMINATED_BY_SERVER,
\* STOPPED_BY_USER -> TERMINATED_BY_USER, ABORTED_BY_USER -> ABORTED_BY_USER).
C22_FinalStatusByReason ==
    [][ /\ \A r \in Runs :
              (runs[r].status = "TERMINATING" /\ runs'[r].status # "TERMINATING")
                  => /\ <<runs[r].termination_reason, runs'[r].status>>
                          \in FinalStatusTable
                     /\ runs'[r].termination_reason = runs[r].termination_reason
        /\ \A t \in Tasks, j \in Jobs :
              (PtrChangesJob(t, j) /\ job_objs'[t][j].status = "TERMINATING")
                  => <<run_obj[t].termination_reason,
                       job_objs'[t][j].termination_reason>> \in JobReasonTable ]_vars

C22_Witness ==
    \E r \in Runs :
        /\ runs[r].status = "FAILED"
        /\ runs[r].termination_reason = "RETRY_LIMIT_EXCEEDED"
        /\ \E j \in JobsOf(r) : jobs[j].termination_reason = "TERMINATED_BY_SERVER"

\* C26: a failure of the gateway service unregister does not block
\* finalization: once unregister_service has raised in
\* process_terminating_run, the run has the final status of its termination
\* reason, and the commit that follows writes it; and unregister_service is
\* called only when no job of the run is left unfinished.
C26_UnregisterFailureDoesNotBlock ==
    /\ [](\A t \in Tasks :
            /\ loop[t].unregister_service = "raised"
                  => /\ pc[t] \in {"commit_processed", "finally"}
                     /\ RunIsFinished(run_obj[t].status)
                     /\ run_obj[t].status =
                          run_termination_reason_to_status(run_obj[t].termination_reason)
            /\ pc[t] = "unregister_service"
                  => \A j \in JobsOf(call[t].run) : JobIsFinished(job_objs[t][j].status))
    /\ [][\A t \in Tasks :
            ( /\ loop[t].unregister_service = "raised"
              /\ pc[t] = "commit_processed"
              /\ result'[t] = "returned" )
                => RunIsFinished(runs'[call[t].run].status)]_vars

C26_Witness ==
    \E t \in Tasks :
        /\ pc[t] = "finally"
        /\ result[t] = "returned"
        /\ loop[t].unregister_service = "raised"
        /\ runs[call[t].run].status = "FAILED"

\* C28: process_terminating_run leaves every job that is already TERMINATING
\* or already finished untouched: its status and termination_reason stay as
\* read, its last_processed_at is not set, and it is neither signalled through
\* stop_runner nor passed to process_terminating_job; and when a job of the
\* run is TERMINATING the call does not finalize the run: it does not
\* unregister the service and hands the run back TERMINATING.
C28_SkippedJobsUntouched ==
    \A t \in Tasks :
        pc[t] \in InJobsLoop =>
            \A j \in JobsOf(call[t].run) :
                /\ (jobs[j].status = "TERMINATING" \/ JobIsFinished(jobs[j].status))
                      => /\ job_objs[t][j] = jobs[j]
                         /\ j \notin loop[t].last_processed_at
                         /\ loop[t].job # j
                /\ jobs[j].status = "TERMINATING"
                      => /\ pc[t] # "unregister_service"
                         /\ run_obj[t].status = "TERMINATING"

C28_Witness ==
    \E t \in Tasks, j1, j2 \in Jobs :
        /\ pc[t] = "commit_processed"
        /\ {j1, j2} \subseteq JobsOf(call[t].run)
        /\ jobs[j1].status = "TERMINATING"
        /\ jobs[j2].status = "RUNNING"
        /\ JobIsFinished(job_objs[t][j2].status)
        /\ loop[t].last_processed_at = {j2}

\* ------------------------------------------------------- create_instance

\* runs.py:98-106
BACKENDS_WITH_CREATE_INSTANCE_SUPPORT ==
    {"aws", "azure", "cudo", "datacrunch", "gcp", "lambda", "tensordock"}

\* the backend types of the offers given to the model, in sorted() order
BackendOrder == <<"aws", "gcp", "kubernetes", "vastai">>
BackendTypes == {BackendOrder[k] : k \in DOMAIN BackendOrder}

InstanceRuntimes == {"SHIM", "RUNNER"}

\* a (backend, offer) pair; the region and the price are the pair's position in
\* the planned list, so that every offer is told apart from the others
Offer(k, backend, runtime) ==
    [backend |-> backend, instance_runtime |-> runtime, region |-> k, price |-> k]

PlannedOffers ==
    UNION {{[k \in 1..n |-> Offer(k, b[k], rt[k])] :
                b \in [1..n -> BackendTypes], rt \in [1..n -> InstanceRuntimes]} :
           n \in 0..MaxOffers}

\* the ways backend.compute().create_instance ends (runs.py:550-567)
ComputeOutcomes == {"launched", "BackendError", "NotImplementedError", "Exception"}

InitCreate ==
    /\ InitTermination
    /\ planned_offers \in PlannedOffers
    /\ ci = [NoCreateInstance EXCEPT !.pc = "get_offers"]
    /\ instances = {}
    /\ InitGateway
    /\ InitSubmit
    /\ InitGather
    /\ plan = NoPlan

\* runs.py:479-484
get_create_instance_offers(offers) ==
    SelectSeq(offers, LAMBDA o : o.backend \in BACKENDS_WITH_CREATE_INSTANCE_SUPPORT)

\* runs.py:510: ", ".join(sorted(backend_types))
SortedBackends(backend_types) ==
    SelectSeq(BackendOrder, LAMBDA b : b \in backend_types)

ServerClientError(msg, backends) == [msg |-> msg, backends |-> backends]

\* any other exception, which create_instance lets through
Exception == [msg |-> "Exception", backends |-> <<>>]

\* runs.py:497-518: the offers are planned and filtered, then the two checks
create_instance_get_offers ==
    /\ ci.pc = "get_offers"
    /\ LET offers == get_create_instance_offers(planned_offers)
           backend_types == {offers[k].backend : k \in DOMAIN offers}
       IN
         IF \A backend_type \in backend_types :
                backend_type \notin BACKENDS_WITH_CREATE_INSTANCE_SUPPORT
         THEN ci' = [ci EXCEPT !.pc = "raised", !.offers = offers,
                        !.error = ServerClientError(
                            "Backends do not support create_instance",
                            SortedBackends(backend_types))]
         ELSE IF offers = <<>>
         THEN ci' = [ci EXCEPT !.pc = "raised", !.offers = offers,
                        !.error = ServerClientError(
                            "Failed to find offers to create the instance.", <<>>)]
         ELSE ci' = [ci EXCEPT !.pc = "get_pool", !.offers = offers]
    /\ UNCHANGED <<restOfCreate, planned_offers, instances>>

\* runs.py:520-539: the pool is resolved or created, the configuration built
create_instance_get_pool ==
    /\ ci.pc = "get_pool"
    /\ ci' = [ci EXCEPT !.pc = "offers_loop", !.pool = "pool", !.idx = 1]
    /\ UNCHANGED <<restOfCreate, planned_offers, instances>>

\* mutant: offers with runtime RUNNER are not skipped
create_instance_offers_loop_no_skip ==
    /\ ci.pc = "offers_loop"
    /\ IF ci.idx > Len(ci.offers)
       THEN ci' = [ci EXCEPT !.pc = "raised",
                      !.error = ServerClientError("Failed to create the instance.", <<>>)]
       ELSE ci' = [ci EXCEPT !.pc = "compute_create_instance"]
    /\ UNCHANGED <<restOfCreate, planned_offers, instances>>

\* runs.py:539-555 and 603: the head of `for backend, instance_offer in offers`
create_instance_offers_loop ==
    /\ ci.pc = "offers_loop"
    /\ IF ci.idx > Len(ci.offers)
       THEN ci' = [ci EXCEPT !.pc = "raised",
                      !.error = ServerClientError("Failed to create the instance.", <<>>)]
       ELSE IF ci.offers[ci.idx].instance_runtime = "RUNNER"
       THEN ci' = [ci EXCEPT !.idx = @ + 1]
       ELSE ci' = [ci EXCEPT !.pc = "compute_create_instance"]
    /\ UNCHANGED <<restOfCreate, planned_offers, instances>>

\* what the n-th backend create call hands back when it succeeds
LaunchedInstanceInfo(offer, n) == [instance_id |-> n, region |-> offer.region]

\* runs.py:568-580
JobProvisioningData(offer, launched_instance_info) ==
    [backend |-> offer.backend, instance_id |-> launched_instance_info.instance_id,
     region |-> launched_instance_info.region, price |-> offer.price]

\* runs.py:585-599: the InstanceModel built from the offer and the launch
InstanceModel(offer, launched_instance_info) ==
    [status |-> "PROVISIONING", backend |-> offer.backend, region |-> offer.region,
     price |-> offer.price,
     job_provisioning_data |-> JobProvisioningData(offer, launched_instance_info),
     offer |-> offer]

\* mutant: BackendError is not caught, so the first failing offer ends the call
create_instance_compute_no_fallback(outcome) ==
    /\ ci.pc = "compute_create_instance"
    /\ LET offer == ci.offers[ci.idx]
           calls == Append(ci.compute_calls, [offer |-> offer, outcome |-> outcome])
       IN
         CASE outcome = "launched" ->
                ci' = [ci EXCEPT !.pc = "commit", !.compute_calls = calls,
                          !.session_new = @ \cup
                              {InstanceModel(offer, LaunchedInstanceInfo(offer, Len(calls)))}]
           [] outcome = "NotImplementedError" ->
                ci' = [ci EXCEPT !.pc = "offers_loop", !.compute_calls = calls,
                          !.idx = @ + 1]
           [] OTHER ->
                ci' = [ci EXCEPT !.pc = "raised", !.compute_calls = calls,
                          !.error = Exception]
    /\ UNCHANGED <<restOfCreate, planned_offers, instances>>

\* runs.py:550-600: the backend call returns or raises
create_instance_compute(outcome) ==
    /\ ci.pc = "compute_create_instance"
    /\ LET offer == ci.offers[ci.idx]
           calls == Append(ci.compute_calls, [offer |-> offer, outcome |-> outcome])
       IN
         CASE outcome = "launched" ->
                ci' = [ci EXCEPT !.pc = "commit", !.compute_calls = calls,
                          !.session_new = @ \cup
                              {InstanceModel(offer, LaunchedInstanceInfo(offer, Len(calls)))}]
           [] outcome \in {"BackendError", "NotImplementedError"} ->
                ci' = [ci EXCEPT !.pc = "offers_loop", !.compute_calls = calls,
                          !.idx = @ + 1]
           [] OTHER ->
                ci' = [ci EXCEPT !.pc = "raised", !.compute_calls = calls,
                          !.error = Exception]
    /\ UNCHANGED <<restOfCreate, planned_offers, instances>>

\* mutant: the instance is returned without session.commit()
create_instance_return_uncommitted(committed) ==
    /\ ci.pc = "commit"
    /\ instances' = instances
    /\ ci' = [ci EXCEPT !.pc = "returned",
                 !.returned = CHOOSE im \in ci.session_new : TRUE]
    /\ UNCHANGED <<restOfCreate, planned_offers>>

\* runs.py:601-602: the commit succeeds and the instance is returned, or the
\* commit raises
create_instance_commit(committed) ==
    /\ ci.pc = "commit"
    /\ IF committed
       THEN /\ instances' = instances \cup ci.session_new
            /\ ci' = [ci EXCEPT !.pc = "returned", !.session_new = {},
                         !.returned = CHOOSE im \in ci.session_new : TRUE]
       ELSE /\ instances' = instances
            /\ ci' = [ci EXCEPT !.pc = "raised", !.error = Exception]
    /\ UNCHANGED <<restOfCreate, planned_offers>>

NextCreate ==
    \/ create_instance_get_offers
    \/ create_instance_get_pool
    \/ create_instance_offers_loop
    \/ \E outcome \in ComputeOutcomes : create_instance_compute(outcome)
    \/ \E committed \in BOOLEAN : create_instance_commit(committed)

SpecCreate == InitCreate /\ [][NextCreate]_vars

\* ------------------------------------------------ claims: create_instance

CreateInstanceDone == ci.pc \in {"returned", "raised"}

CallFailed(c) == c.outcome \in {"BackendError", "NotImplementedError"}

\* the backend create call was made for the offer
Called(offer) ==
    \E k \in DOMAIN ci.compute_calls : ci.compute_calls[k].offer = offer

\* every offer of the list was skipped (runtime RUNNER) or its create call
\* raised BackendError or NotImplementedError
EveryOfferSkippedOrFailed ==
    \A k \in DOMAIN ci.offers :
        \/ ci.offers[k].instance_runtime = "RUNNER"
        \/ \E c \in DOMAIN ci.compute_calls :
              /\ ci.compute_calls[c].offer = ci.offers[k]
              /\ CallFailed(ci.compute_calls[c])

\* C8: create_instance returns only with exactly one committed InstanceModel
\* row, of status PROVISIONING, and nothing pending in the session; when every
\* offer is skipped or fails it raises 'Failed to create the instance.' with no
\* row committed and none pending.
C8_ReturnsOnlyCommitted ==
    /\ ci.pc = "returned" =>
          /\ instances = {ci.returned}
          /\ ci.returned.status = "PROVISIONING"
          /\ ci.session_new = {}
    /\ ci.pc # "returned" => instances = {}
    /\ (CreateInstanceDone /\ ci.offers # <<>> /\ EveryOfferSkippedOrFailed) =>
          /\ ci.pc = "raised"
          /\ ci.error = ServerClientError("Failed to create the instance.", <<>>)
          /\ ci.session_new = {}

C8_Witness ==
    /\ ci.pc = "returned"
    /\ Len(ci.compute_calls) >= 2
    /\ instances = {ci.returned}

\* C9: the backend create calls are made in list order, for every offer that
\* is not of runtime RUNNER, each after the failure (BackendError or
\* NotImplementedError) of the one before; no call follows a success; and the
\* persisted instance carries the backend, region, price and provisioning data
\* of the offer whose call succeeded.
C9_FirstSuccessfulOffer ==
    /\ \A a, b \in DOMAIN ci.compute_calls :
          a < b => /\ ci.compute_calls[a].offer.region < ci.compute_calls[b].offer.region
                   /\ CallFailed(ci.compute_calls[a])
    /\ \A c \in DOMAIN ci.compute_calls, k \in DOMAIN ci.offers :
          ( /\ ci.offers[k].region < ci.compute_calls[c].offer.region
            /\ ci.offers[k].instance_runtime # "RUNNER" ) => Called(ci.offers[k])
    /\ ( /\ ci.pc = "raised"
         /\ ci.compute_calls # <<>>
         /\ CallFailed(ci.compute_calls[Len(ci.compute_calls)]) ) =>
          /\ ci.error = ServerClientError("Failed to create the instance.", <<>>)
          /\ \A k \in DOMAIN ci.offers :
                ci.offers[k].instance_runtime # "RUNNER" => Called(ci.offers[k])
    /\ ci.pc = "returned" =>
          LET last == ci.compute_calls[Len(ci.compute_calls)] IN
            /\ last.outcome = "launched"
            /\ \A im \in instances :
                  /\ im.backend = last.offer.backend
                  /\ im.region = last.offer.region
                  /\ im.price = last.offer.price
                  /\ im.offer = last.offer
                  /\ im.job_provisioning_data =
                        JobProvisioningData(last.offer,
                            LaunchedInstanceInfo(last.offer, Len(ci.compute_calls)))
            /\ Cardinality(instances) = 1

C9_Witness ==
    /\ ci.pc = "returned"
    /\ Len(ci.compute_calls) = 3
    /\ ci.compute_calls[1].outcome = "BackendError"
    /\ ci.compute_calls[2].outcome = "BackendError"
    /\ \E im \in instances : im.offer = ci.offers[3]

\* C10 (as claimed): when every planned offer belongs to a backend without
\* create_instance support, create_instance fails with the client error that
\* lists those backends, and no backend create call is made.
C10_Original ==
    ( /\ CreateInstanceDone
      /\ planned_offers # <<>>
      /\ \A k \in DOMAIN planned_offers :
            planned_offers[k].backend \notin BACKENDS_WITH_CREATE_INSTANCE_SUPPORT ) =>
        /\ ci.pc = "raised"
        /\ ci.error = ServerClientError(
              "Backends do not support create_instance",
              SortedBackends({planned_offers[k].backend : k \in DOMAIN planned_offers}))
        /\ ci.compute_calls = <<>>

\* C29: create_instance never calls a backend's create_instance for an offer
\* with runtime RUNNER and never adds, commits or returns an instance built
\* from such an offer; and when every offer it iterates over has runtime
\* RUNNER it fails with 'Failed to create the instance.', with no backend call
\* and no instance.
C29_RunnerOffersSkipped ==
    /\ \A c \in DOMAIN ci.compute_calls :
          ci.compute_calls[c].offer.instance_runtime # "RUNNER"
    /\ \A im \in instances \cup ci.session_new : im.offer.instance_runtime # "RUNNER"
    /\ ci.pc = "returned" => ci.returned.offer.instance_runtime # "RUNNER"
    /\ ( /\ CreateInstanceDone
         /\ ci.offers # <<>>
         /\ \A k \in DOMAIN ci.offers : ci.offers[k].instance_runtime = "RUNNER" ) =>
          /\ ci.pc = "raised"
          /\ ci.error = ServerClientError("Failed to create the instance.", <<>>)
          /\ ci.compute_calls = <<>>
          /\ instances = {}

C29_Witness ==
    /\ ci.pc = "returned"
    /\ Len(ci.offers) = 3
    /\ ci.offers[1].instance_runtime = "RUNNER"
    /\ ci.offers[2].instance_runtime = "RUNNER"
    /\ Len(ci.compute_calls) = 1
    /\ ci.returned.offer = ci.offers[3]

\* C31 (as claimed): when no offer remains after the filter to the backends
\* with create_instance support, create_instance fails with the client error
\* 'Failed to find offers to create the instance.', with no pool resolved or
\* created and no backend create call made.
C31_Original ==
    ( /\ CreateInstanceDone
      /\ get_create_instance_offers(planned_offers) = <<>> ) =>
        /\ ci.pc = "raised"
        /\ ci.error = ServerClientError(
              "Failed to find offers to create the instance.", <<>>)
        /\ ci.pool = None
        /\ ci.compute_calls = <<>>

\* ------------------------------------------------------- gateway: Nginx

GATEWAY_PORT == 8000

\* nginx.py:34-39, 60-65
ServiceConfig(domain) == [type |-> "service", domain |-> domain, servers |-> <<>>]

\* nginx.py:42-44, 81-84
EntrypointConfig(domain) ==
    [type |-> "entrypoint", domain |-> domain, proxy_path |-> "prefix"]

\* nginx.py:24-31: the text rendered from the template of the config's type
render(conf) ==
    [template |-> conf.type, domain |-> conf.domain,
     upstream |-> IF conf.type = "service" THEN conf.servers ELSE conf.proxy_path,
     gateway_port |-> GATEWAY_PORT]

\* dstack.gateway.common.run_async, awaited at nginx.py:73-74, 92-93, 107-108,
\* 124, 142: the await ends when the function has run, by its return (TRUE) or
\* by the GatewayError it raised (FALSE)
run_async == BOOLEAN

GatewayOps ==
    {"register_service", "register_entrypoint", "unregister_domain",
     "add_upstream", "remove_upstream"}

\* the command `step` fails with GatewayError (nginx.py:152, 179, 193, 199),
\* which leaves `async with self._lock`
GatewayRaise(t, step) ==
    gw' = [gw EXCEPT ![t].pc = "raise", ![t].error = "GatewayError",
                     ![t].failed = @ \cup {step}]

\* a task calls one of the five operations and reaches `async with self._lock`
gateway_call(t, op, domain, server, replica_id) ==
    /\ gw[t].pc = "idle"
    /\ op \in {"register_service", "register_entrypoint", "unregister_domain"} =>
          server = 1 /\ replica_id = 1
    /\ op = "remove_upstream" => server = 1
    /\ gw' = [gw EXCEPT ![t] = [NoGatewayCall EXCEPT !.pc = "lock", !.op = op,
                  !.domain = domain, !.server = server, !.replica_id = replica_id]]
    /\ UNCHANGED <<restOfGateway, configs, files, lock>>

\* nginx.py:68-71, 87-90, 102-105, 117-123, 133-141: the code that runs under
\* the lock up to its first await
gateway_check(t) ==
    /\ lock' = t
    /\ LET c == gw[t]
           d == c.domain
           here == [gw EXCEPT ![t].before = [file |-> files[d], configs |-> configs]]
           Raise(error) == gw' = [here EXCEPT ![t].pc = "raise", ![t].error = error]
       IN
         CASE c.op = "register_service" ->
                IF configs[d] # NoConfig THEN Raise("GatewayError")
                ELSE gw' = [here EXCEPT ![t].pc = "run_certbot",
                                        ![t].conf = ServiceConfig(d)]
           [] c.op = "register_entrypoint" ->
                IF configs[d] # NoConfig THEN Raise("GatewayError")
                ELSE gw' = [here EXCEPT ![t].pc = "run_certbot",
                                        ![t].conf = EntrypointConfig(d)]
           [] c.op = "unregister_domain" ->
                IF configs[d] = NoConfig THEN Raise("GatewayError")
                ELSE gw' = [here EXCEPT ![t].pc = "sudo_rm"]
           [] c.op = "add_upstream" ->
                IF configs[d] = NoConfig THEN Raise("GatewayError")
                ELSE IF configs[d].type # "service" THEN Raise("AttributeError")
                ELSE LET servers == configs[d].servers IN
                     gw' = [here EXCEPT ![t].pc = "write_conf",
                              ![t].conf = [configs[d] EXCEPT !.servers =
                                  [r \in (DOMAIN servers) \cup {c.replica_id} |->
                                      IF r = c.replica_id THEN c.server
                                      ELSE servers[r]]]]
           [] c.op = "remove_upstream" ->
                IF configs[d] = NoConfig THEN Raise("GatewayError")
                ELSE IF configs[d].type # "service" THEN Raise("AttributeError")
                ELSE IF c.replica_id \notin DOMAIN configs[d].servers
                THEN Raise("GatewayError")
                ELSE LET servers == configs[d].servers IN
                     gw' = [here EXCEPT ![t].pc = "write_conf",
                              ![t].conf = [configs[d] EXCEPT !.servers =
                                  [r \in (DOMAIN servers) \ {c.replica_id} |->
                                      servers[r]]]]
    /\ UNCHANGED <<restOfGateway, configs, files>>

\* mutant: the operation does not wait for the lock
gateway_enter_no_lock(t) ==
    /\ gw[t].pc = "lock"
    /\ gateway_check(t)

\* nginx.py:67, 86, 101, 116, 132: `async with self._lock` takes the free lock
gateway_enter(t) ==
    /\ gw[t].pc = "lock"
    /\ lock = Unlocked
    /\ gateway_check(t)

\* nginx.py:73, 92 and 171-179
run_certbot(t, ok) ==
    /\ gw[t].pc = "run_certbot"
    /\ IF ok THEN gw' = [gw EXCEPT ![t].pc = "write_conf"]
       ELSE GatewayRaise(t, "run_certbot")
    /\ UNCHANGED <<restOfGateway, configs, files, lock>>

\* nginx.py:157-160 and 186-193: write_conf reads the old file and writes
write_conf_sudo_write(t, ok) ==
    /\ gw[t].pc = "write_conf"
    /\ LET d == gw[t].domain IN
         IF ok
         THEN /\ files' = [files EXCEPT ![d] = render(gw[t].conf)]
              /\ gw' = [gw EXCEPT ![t].pc = "reload", ![t].old_conf = files[d]]
         ELSE /\ files' = files
              /\ gw' = [gw EXCEPT ![t].pc = "raise", ![t].old_conf = files[d],
                                  ![t].error = "GatewayError",
                                  ![t].failed = @ \cup {"sudo_write"}]
    /\ UNCHANGED <<restOfGateway, configs, lock>>

\* mutant: reload is called outside any try, so its failure is not rolled back
write_conf_reload_no_try(t, ok) ==
    /\ gw[t].pc = "reload"
    /\ IF ok THEN gw' = [gw EXCEPT ![t].pc = "update"]
       ELSE GatewayRaise(t, "reload")
    /\ UNCHANGED <<restOfGateway, configs, files, lock>>

\* nginx.py:161-163 and 147-152
write_conf_reload(t, ok) ==
    /\ gw[t].pc = "reload"
    /\ IF ok THEN gw' = [gw EXCEPT ![t].pc = "update"]
       ELSE gw' = [gw EXCEPT ![t].pc = "rollback", ![t].failed = @ \cup {"reload"}]
    /\ UNCHANGED <<restOfGateway, configs, files, lock>>

\* mutant: the rollback removes the file whatever old_conf was
write_conf_rollback_always_rm(t, ok) ==
    /\ gw[t].pc = "rollback"
    /\ files' = IF ok THEN [files EXCEPT ![gw[t].domain] = NoFile] ELSE files
    /\ gw' = [gw EXCEPT ![t].pc = "raise", ![t].error = "GatewayError",
                        ![t].failed = IF ok THEN @ ELSE @ \cup {"rollback"}]
    /\ UNCHANGED <<restOfGateway, configs, lock>>

\* nginx.py:164-169: the rollback of write_conf, whose own sudo_write or
\* sudo_rm raises when the command fails
write_conf_rollback(t, ok) ==
    /\ gw[t].pc = "rollback"
    /\ files' = IF ok THEN [files EXCEPT ![gw[t].domain] = gw[t].old_conf]
                ELSE files
    /\ gw' = [gw EXCEPT ![t].pc = "raise", ![t].error = "GatewayError",
                        ![t].failed = IF ok THEN @ ELSE @ \cup {"rollback"}]
    /\ UNCHANGED <<restOfGateway, configs, lock>>

\* nginx.py:75, 94, 125, 143: configs is updated and the lock released
gateway_update(t) ==
    /\ gw[t].pc = "update"
    /\ configs' = [configs EXCEPT ![gw[t].domain] = gw[t].conf]
    /\ lock' = Unlocked
    /\ gw' = [gw EXCEPT ![t] = [NoGatewayCall EXCEPT !.result = "ok"]]
    /\ UNCHANGED <<restOfGateway, files>>

\* nginx.py:107 and 196-199: rm fails on a path without a file
unregister_sudo_rm(t, ok) ==
    /\ gw[t].pc = "sudo_rm"
    /\ ok => files[gw[t].domain] # NoFile
    /\ IF ok
       THEN /\ files' = [files EXCEPT ![gw[t].domain] = NoFile]
            /\ gw' = [gw EXCEPT ![t].pc = "unregister_reload"]
       ELSE /\ files' = files
            /\ GatewayRaise(t, "sudo_rm")
    /\ UNCHANGED <<restOfGateway, configs, lock>>

\* nginx.py:108
unregister_reload(t, ok) ==
    /\ gw[t].pc = "unregister_reload"
    /\ IF ok THEN gw' = [gw EXCEPT ![t].pc = "pop"]
       ELSE GatewayRaise(t, "reload")
    /\ UNCHANGED <<restOfGateway, configs, files, lock>>

\* nginx.py:109
unregister_pop(t) ==
    /\ gw[t].pc = "pop"
    /\ configs' = [configs EXCEPT ![gw[t].domain] = NoConfig]
    /\ lock' = Unlocked
    /\ gw' = [gw EXCEPT ![t] = [NoGatewayCall EXCEPT !.result = "ok"]]
    /\ UNCHANGED <<restOfGateway, files>>

\* the exception leaves `async with self._lock`, which releases the lock
gateway_raise(t) ==
    /\ gw[t].pc = "raise"
    /\ lock' = Unlocked
    /\ gw' = [gw EXCEPT ![t] = [NoGatewayCall EXCEPT !.result = gw[t].error]]
    /\ UNCHANGED <<restOfGateway, configs, files>>

NextGateway ==
    \/ \E t \in GatewayTasks, op \in GatewayOps, d \in Domains,
          server \in Servers, r \in Replicas : gateway_call(t, op, d, server, r)
    \/ \E t \in GatewayTasks : gateway_enter(t)
    \/ \E t \in GatewayTasks, ok \in run_async : run_certbot(t, ok)
    \/ \E t \in GatewayTasks, ok \in run_async : write_conf_sudo_write(t, ok)
    \/ \E t \in GatewayTasks, ok \in run_async : write_conf_reload(t, ok)
    \/ \E t \in GatewayTasks, ok \in run_async : write_conf_rollback(t, ok)
    \/ \E t \in GatewayTasks : gateway_update(t)
    \/ \E t \in GatewayTasks, ok \in run_async : unregister_sudo_rm(t, ok)
    \/ \E t \in GatewayTasks, ok \in run_async : unregister_reload(t, ok)
    \/ \E t \in GatewayTasks : unregister_pop(t)
    \/ \E t \in GatewayTasks : gateway_raise(t)

SpecGateway == Init /\ [][NextGateway]_vars

\* -------------------------------------------------------- claims: gateway

\* the call of task t ends with GatewayError after the commands in `steps`,
\* and no others, have failed
GatewayFailed(t, op, steps) ==
    /\ gw[t].pc = "raise"
    /\ gw[t].op = op
    /\ gw[t].failed = steps

\* the domain's file and the configs map are as the call found them
GatewayAsBefore(t) ==
    /\ files[gw[t].domain] = gw[t].before.file
    /\ configs = gw[t].before.configs

C13_Original ==
    \A t \in GatewayTasks :
        ( /\ gw[t].pc = "raise"
          /\ gw[t].op = "unregister_domain"
          /\ gw[t].failed \cap {"sudo_rm", "reload"} # {} ) =>
            /\ GatewayAsBefore(t)
            /\ gw[t].error = "GatewayError"

\* the call of task t is between its check of configs and the release of the lock
InGatewayCall(t) == gw[t].pc \notin {"idle", "lock"}

\* C14: at most one gateway operation is between its precondition check and
\* its update of configs, and it holds the lock; until it has written, the
\* domain's file is as it found it, and configs is as it was checked until the
\* operation itself updates it.
C14_GatewayMutex ==
    /\ \A t, u \in GatewayTasks : (InGatewayCall(t) /\ InGatewayCall(u)) => t = u
    /\ \A t \in GatewayTasks :
          InGatewayCall(t) =>
            /\ lock = t
            /\ configs = gw[t].before.configs
            /\ gw[t].pc \in {"run_certbot", "write_conf", "sudo_rm"} =>
                  files[gw[t].domain] = gw[t].before.file
    /\ lock # Unlocked => InGatewayCall(lock)

C14_Witness ==
    \E t, u \in GatewayTasks :
        /\ gw[t].pc = "update"
        /\ gw[u].pc = "lock"
        /\ gw[u].domain = gw[t].domain
        /\ gw[u].op = "unregister_domain"
        /\ gw[t].op = "add_upstream"

\* the call of task t has taken the lock and found the precondition of its
\* operation broken: the domain already registered (register_service,
\* register_entrypoint), the domain not registered (unregister_domain,
\* add_upstream, remove_upstream), or the replica_id not among the servers of
\* the domain (remove_upstream)
PreconditionBroken(t) ==
    /\ gw[t].pc \notin {"idle", "lock"}
    /\ LET conf == gw[t].before.configs[gw[t].domain] IN
         \/ /\ gw[t].op \in {"register_service", "register_entrypoint"}
            /\ conf # NoConfig
         \/ /\ gw[t].op \in {"unregister_domain", "add_upstream", "remove_upstream"}
            /\ conf = NoConfig
         \/ /\ gw[t].op = "remove_upstream"
            /\ conf # NoConfig
            /\ ~(conf.type = "service" /\ gw[t].replica_id \in DOMAIN conf.servers)

\* C25 (as claimed): a gateway operation rejected by its precondition raises
\* GatewayError without running certbot, writing or removing any file,
\* reloading the proxy, or changing the in-memory configs.
C25_Original ==
    \A t \in GatewayTasks :
        PreconditionBroken(t) =>
            /\ gw[t].pc = "raise"
            /\ gw[t].error = "GatewayError"
            /\ gw[t].failed = {}
            /\ configs = gw[t].before.configs
            /\ files[gw[t].domain] = gw[t].before.file

\* C30 (as claimed): whenever no gateway operation is in progress, a domain
\* has a config in Nginx.configs if and only if its file exists in the sites
\* directory, and the file is the rendering of that config.
C30_Original ==
    lock = Unlocked =>
        \A d \in Domains :
            /\ configs[d] # NoConfig <=> files[d] # NoFile
            /\ configs[d] # NoConfig => files[d] = render(configs[d])

\* ------------------------------- submit_run, delete_runs, get_run_plan

\* f"{run_name_base}-{idx}" (runs.py:666, 671)
RunName(run_name_base, idx) == <<run_name_base, idx>>

\* the run names a client gives: one that fails the regex of runs.py:694, and
\* names that pass it, which a generated name can equal
GivenRunNames == {InvalidRunName} \cup {RunName(b, 1) : b \in Bases}

\* run_spec.configuration: its type and, for a service, replicas.min and
\* replicas.max (min 0 stands for a missing or non-positive min)
Configurations ==
    {[type |-> "task", min |-> 1, max |-> 1],
     [type |-> "service", min |-> 0, max |-> 1],
     [type |-> "service", min |-> 1, max |-> 1],
     [type |-> "service", min |-> 1, max |-> 2],
     [type |-> "service", min |-> 2, max |-> 2]}

PoolNames == {"default", "pool"}

SubmitOps == {"submit_run", "delete_runs", "get_run_plan"}

\* ids of the committed run rows of the project with the name
RunsNamed(run_name) == {i \in DOMAIN run_rows : run_rows[i].run_name = run_name}

\* runs.py:446-448, 458-461: the rows with RunModel.project_id == project.id
\* and RunModel.run_name.in_(runs_names)
RunModelsWhere(project_id, runs_names) ==
    {i \in DOMAIN run_rows : /\ run_rows[i].project_id = project_id
                             /\ run_rows[i].run_name \in runs_names}

\* runs.py:176-193: the row get_run finds, deleted rows left out
get_run(run_name) == {i \in RunsNamed(run_name) : ~run_rows[i].deleted}

\* the exception leaves the function
SubmitRaise(t, error) ==
    sub' = [sub EXCEPT ![t].pc = "raised", ![t].error = error]

SubmitCallsInFlight ==
    Cardinality({t \in SubmitTasks : sub[t].op = "submit_run" /\ sub[t].pc # "idle"})

\* the project of the requests on submit_run and get_run_plan
RequestProject == Min(Projects)

\* a request calls submit_run, delete_runs or get_run_plan with its own session
submit_call(t, op, run_name, configuration, pool_name) ==
    /\ sub[t].pc = "idle"
    /\ op = "submit_run" => Len(run_rows) + SubmitCallsInFlight < MaxRunRows
    /\ op = "delete_runs" =>
          /\ run_name \notin {NoRunName, InvalidRunName}
          /\ configuration = NoSubmitCall.configuration
    /\ op # "get_run_plan" => pool_name = "default"
    /\ op = "get_run_plan" => configuration = NoSubmitCall.configuration
    /\ sub' = [sub EXCEPT ![t] = [NoSubmitCall EXCEPT
                  !.pc = CASE op = "submit_run" -> "validate"
                           [] op = "delete_runs" -> "delete_select"
                           [] op = "get_run_plan" -> "get_run_plan",
                  !.op = op, !.project_id = RequestProject, !.run_name = run_name,
                  !.runs_names = IF op = "delete_runs" THEN {run_name} ELSE {},
                  !.configuration = configuration, !.pool_name = pool_name]]
    /\ UNCHANGED <<restOfSubmit, run_rows, job_rows, pool_rows, name_lock>>

\* runs.py:308-326: the repo and the backends are looked up, then the name is
\* generated or validated
submit_run_validate(t, outcome) ==
    /\ sub[t].pc = "validate"
    /\ CASE outcome = "RepoDoesNotExistError" -> SubmitRaise(t, outcome)
         [] outcome = "No backends configured" -> SubmitRaise(t, outcome)
         [] OTHER ->
              IF sub[t].run_name = NoRunName
              THEN sub' = [sub EXCEPT ![t].pc = "generate_lock"]
              ELSE IF sub[t].run_name = InvalidRunName
              THEN SubmitRaise(t, "run_name should match regex")
              ELSE sub' = [sub EXCEPT ![t].pc = "delete_select",
                              ![t].runs_names = {sub[t].run_name}]
    /\ UNCHANGED <<restOfSubmit, run_rows, job_rows, pool_rows, name_lock>>

\* runs.py:658-661: a base is drawn and the project's name lock taken
generate_run_name_lock(t, run_name_base) ==
    /\ sub[t].pc = "generate_lock"
    /\ name_lock = Unlocked
    /\ name_lock' = t
    /\ sub' = [sub EXCEPT ![t].pc = "generate_get_run",
                          ![t].run_name_base = run_name_base, ![t].idx = 1]
    /\ UNCHANGED <<restOfSubmit, run_rows, job_rows, pool_rows>>

\* runs.py:662-671: one get_run of the loop; the first free name is returned
\* and the lock released
generate_run_name_get_run(t) ==
    /\ sub[t].pc = "generate_get_run"
    /\ IF get_run(RunName(sub[t].run_name_base, sub[t].idx)) # {}
       THEN /\ sub' = [sub EXCEPT ![t].idx = @ + 1]
            /\ name_lock' = name_lock
       ELSE /\ sub' = [sub EXCEPT ![t].pc = "add",
                          ![t].run_name = RunName(sub[t].run_name_base, sub[t].idx)]
            /\ name_lock' = Unlocked
    /\ UNCHANGED <<restOfSubmit, run_rows, job_rows, pool_rows>>

\* a request calls delete_runs for a project with a list of run names
delete_runs_call(t, project_id, runs_names) ==
    /\ sub[t].pc = "idle"
    /\ sub' = [sub EXCEPT ![t] = [NoSubmitCall EXCEPT
                  !.pc = "delete_select", !.op = "delete_runs",
                  !.project_id = project_id, !.runs_names = runs_names]]
    /\ UNCHANGED <<restOfSubmit, run_rows, job_rows, pool_rows, name_lock>>

\* mutant: the runs are deleted whether they are finished or not
delete_runs_select_no_check(t) ==
    /\ sub[t].pc = "delete_select"
    /\ sub' = [sub EXCEPT ![t].pc = "delete_update",
                          ![t].run_models =
                              RunModelsWhere(sub[t].project_id, sub[t].runs_names)]
    /\ UNCHANGED <<restOfSubmit, run_rows, job_rows, pool_rows, name_lock>>

\* runs.py:445-455: the SELECT of the runs with the names, and the check that
\* none of them is active
delete_runs_select(t) ==
    /\ sub[t].pc = "delete_select"
    /\ LET run_models == RunModelsWhere(sub[t].project_id, sub[t].runs_names)
           active_runs == {i \in run_models : ~RunIsFinished(run_rows[i].status)}
       IN IF active_runs # {}
          THEN SubmitRaise(t, "Cannot delete active runs")
          ELSE sub' = [sub EXCEPT ![t].pc = "delete_update",
                          ![t].run_models = run_models]
    /\ UNCHANGED <<restOfSubmit, run_rows, job_rows, pool_rows, name_lock>>

\* runs.py:456-463: the UPDATE marks the rows that have the names now
delete_runs_update(t) ==
    /\ sub[t].pc = "delete_update"
    /\ sub' = [sub EXCEPT ![t].pc = "delete_commit",
                          ![t].to_delete =
                              RunModelsWhere(sub[t].project_id, sub[t].runs_names)]
    /\ UNCHANGED <<restOfSubmit, run_rows, job_rows, pool_rows, name_lock>>

\* runs.py:464
delete_runs_commit(t, committed) ==
    /\ sub[t].pc = "delete_commit"
    /\ IF committed
       THEN /\ run_rows' = [i \in DOMAIN run_rows |->
                              IF i \in sub[t].to_delete
                              THEN [run_rows[i] EXCEPT !.deleted = TRUE]
                              ELSE run_rows[i]]
            /\ LET done == [sub[t] EXCEPT !.to_delete = {}, !.run_models = {},
                              !.soft_deleted =
                                  {i \in sub[t].to_delete : ~run_rows[i].deleted}]
               IN IF sub[t].op = "delete_runs"
                  THEN sub' = [sub EXCEPT ![t] = [NoSubmitCall EXCEPT !.result = "ok"]]
                  ELSE sub' = [sub EXCEPT ![t] = [done EXCEPT !.pc = "add"]]
       ELSE /\ run_rows' = run_rows
            /\ SubmitRaise(t, "Exception")
    /\ UNCHANGED <<restOfSubmit, job_rows, pool_rows, name_lock>>

\* services/jobs get_jobs_from_run_spec(run_spec, replica_num): the jobs of
\* the run spec for one replica, built from the configuration and so without
\* submissions; a task, a service or a dev environment has one job, job_num 0
get_jobs_from_run_spec(replica_num) ==
    {[job_num |-> 0, replica_num |-> replica_num, job_submissions |-> <<>>]}

\* mutant: every new JobModel gets submission_num 0
create_job_model_for_new_submission_zero(run_model, job, status) ==
    [run |-> run_model, job_num |-> job.job_num, replica_num |-> job.replica_num,
     submission_num |-> 0, status |-> status]

\* runs.py:370-391
create_job_model_for_new_submission(run_model, job, status) ==
    [run |-> run_model, job_num |-> job.job_num, replica_num |-> job.replica_num,
     submission_num |-> Len(job.job_submissions), status |-> status]

\* runs.py:608: sorted(..., key=submission_num) within one (replica_num, job_num)
SortedBySubmissionNum(rows) ==
    CHOOSE seq \in [1..Cardinality(rows) -> rows] :
        /\ {seq[k] : k \in 1..Cardinality(rows)} = rows
        /\ \A a, b \in 1..Cardinality(rows) :
              a < b => seq[a].submission_num <= seq[b].submission_num

\* runs.py:606-623: the jobs of run_model_to_run(run_model): the JobModel rows
\* of the run grouped by (replica_num, job_num), each group one Job with its
\* submissions in the order of submission_num
run_model_to_run(run_model) ==
    {[job_num |-> key[2], replica_num |-> key[1],
      job_submissions |->
          SortedBySubmissionNum({j \in job_rows : /\ j.run = run_model
                                                  /\ j.replica_num = key[1]
                                                  /\ j.job_num = key[2]})] :
        key \in {<<j.replica_num, j.job_num>> : j \in {x \in job_rows : x.run = run_model}}}

\* runs.py:354-362: the JobModels of every replica are added to the session
MaterializeJobs(t, replicas, jobs_ok) ==
    IF jobs_ok
    THEN sub' = [sub EXCEPT ![t].pc = "commit",
                   ![t].session_new = {<<"run", 0>>} \cup
                       {<<"job", replica_num>> : replica_num \in 0..(replicas - 1)}]
    ELSE sub' = [sub EXCEPT ![t].pc = "raised", ![t].error = "Exception",
                   ![t].session_new = {<<"run", 0>>}]

\* mutant: the service is registered without the check that replicas.min
\* equals replicas.max
submit_run_add_no_autoscaling_check(t, jobs_ok) ==
    /\ sub[t].pc = "add"
    /\ LET c == sub[t].configuration IN
         IF c.type = "service"
         THEN IF c.min < 1
              THEN sub' = [sub EXCEPT ![t].pc = "raised",
                              ![t].error = "Replicas count should be at least 1",
                              ![t].session_new = {<<"run", 0>>}]
              ELSE sub' = [sub EXCEPT ![t].pc = "register_service",
                              ![t].session_new = {<<"run", 0>>}]
         ELSE MaterializeJobs(t, 1, jobs_ok)
    /\ UNCHANGED <<restOfSubmit, run_rows, job_rows, pool_rows, name_lock>>

\* runs.py:329-362: the RunModel is added to the session, the replicas of a
\* service are checked, and the jobs of a run that is no service are added
submit_run_add(t, jobs_ok) ==
    /\ sub[t].pc = "add"
    /\ LET c == sub[t].configuration IN
         IF c.type = "service"
         THEN IF c.min < 1
              THEN sub' = [sub EXCEPT ![t].pc = "raised",
                              ![t].error = "Replicas count should be at least 1",
                              ![t].session_new = {<<"run", 0>>}]
              ELSE IF c.min # c.max
              THEN sub' = [sub EXCEPT ![t].pc = "raised",
                              ![t].error = "Auto-scaling is not supported yet",
                              ![t].session_new = {<<"run", 0>>}]
              ELSE sub' = [sub EXCEPT ![t].pc = "register_service",
                              ![t].session_new = {<<"run", 0>>}]
         ELSE MaterializeJobs(t, 1, jobs_ok)
    /\ UNCHANGED <<restOfSubmit, run_rows, job_rows, pool_rows, name_lock>>

\* runs.py:352-362: gateways.register_service returns or raises; after it the
\* jobs of every replica are added
submit_run_register_service(t, registered, jobs_ok) ==
    /\ sub[t].pc = "register_service"
    /\ IF registered
       THEN IF jobs_ok
            THEN sub' = [sub EXCEPT ![t].pc = "commit", ![t].registered = TRUE,
                           ![t].session_new = @ \cup
                               {<<"job", replica_num>> :
                                   replica_num \in 0..(sub[t].configuration.min - 1)}]
            ELSE sub' = [sub EXCEPT ![t].pc = "raised", ![t].registered = TRUE,
                           ![t].error = "Exception"]
       ELSE SubmitRaise(t, "GatewayError")
    /\ UNCHANGED <<restOfSubmit, run_rows, job_rows, pool_rows, name_lock>>

\* runs.py:363-367: the commit inserts the run row and its job rows
submit_run_commit(t, committed) ==
    /\ sub[t].pc = "commit"
    /\ IF committed
       THEN LET id == Len(run_rows) + 1 IN
            /\ run_rows' = Append(run_rows,
                              [project_id |-> sub[t].project_id,
                               run_name |-> sub[t].run_name, status |-> "SUBMITTED",
                               deleted |-> FALSE,
                               generated |-> sub[t].run_name_base # 0])
            /\ job_rows' = job_rows \cup
                  UNION {{create_job_model_for_new_submission(id, job, "SUBMITTED") :
                             job \in get_jobs_from_run_spec(o[2])} :
                         o \in {x \in sub[t].session_new : x[1] = "job"}}
            /\ sub' = [sub EXCEPT ![t] = [NoSubmitCall EXCEPT !.result = "ok",
                                             !.inserted = id]]
       ELSE /\ UNCHANGED <<run_rows, job_rows>>
            /\ SubmitRaise(t, "Exception")
    /\ UNCHANGED <<restOfSubmit, pool_rows, name_lock>>

\* the request ends with the error; its session is closed with what it holds
\* uncommitted
submit_raise(t) ==
    /\ sub[t].pc = "raised"
    /\ sub' = [sub EXCEPT ![t] = [NoSubmitCall EXCEPT !.result = sub[t].error]]
    /\ UNCHANGED <<restOfSubmit, run_rows, job_rows, pool_rows, name_lock>>

\* runs.py:199-207: the given name is validated and the pool of the profile
\* looked up, which get_or_create_pool_by_name creates when it is missing
get_run_plan_get_or_create_pool(t) ==
    /\ sub[t].pc = "get_run_plan"
    /\ IF sub[t].run_name = InvalidRunName
       THEN /\ SubmitRaise(t, "run_name should match regex")
            /\ pool_rows' = pool_rows
       ELSE /\ sub' = [sub EXCEPT ![t].pc = "plan"]
            /\ pool_rows' = pool_rows \cup {sub[t].pool_name}
    /\ UNCHANGED <<restOfSubmit, run_rows, job_rows, name_lock>>

\* runs.py:209-260: the offers are collected and the plan returned
get_run_plan_return(t) ==
    /\ sub[t].pc = "plan"
    /\ sub' = [sub EXCEPT ![t] = [NoSubmitCall EXCEPT !.result = "ok"]]
    /\ UNCHANGED <<restOfSubmit, run_rows, job_rows, pool_rows, name_lock>>

\* the reconcilers bring a run and its jobs to a finished status
run_finishes(i) ==
    /\ i \in DOMAIN run_rows
    /\ run_rows[i].status = "SUBMITTED"
    /\ run_rows' = [run_rows EXCEPT ![i].status = "DONE"]
    /\ job_rows' = {IF j.run = i /\ j.status = "SUBMITTED"
                    THEN [j EXCEPT !.status = "DONE"] ELSE j : j \in job_rows}
    /\ UNCHANGED <<restOfSubmit, pool_rows, name_lock, sub>>

\* the retry of process_runs: the latest submission of a job of an active run
\* has failed, and the job is submitted again through
\* create_job_model_for_new_submission with the Job of run_model_to_run
process_runs_retry(i, job) ==
    /\ i \in DOMAIN run_rows
    /\ run_rows[i].status = "SUBMITTED"
    /\ job \in run_model_to_run(i)
    /\ Len(job.job_submissions) < MaxSubmissions
    /\ LET latest == job.job_submissions[Len(job.job_submissions)] IN
         /\ latest.status = "SUBMITTED"
         /\ job_rows' = (job_rows \ {latest}) \cup
               {[latest EXCEPT !.status = "FAILED"],
                create_job_model_for_new_submission(i, job, "SUBMITTED")}
    /\ UNCHANGED <<restOfSubmit, run_rows, pool_rows, name_lock, sub>>

SubmitOutcomes == {"ok", "RepoDoesNotExistError", "No backends configured"}

NextSubmit ==
    \/ \E t \in SubmitTasks, op \in SubmitOps,
          run_name \in GivenRunNames \cup {NoRunName},
          configuration \in Configurations, pool_name \in PoolNames :
            submit_call(t, op, run_name, configuration, pool_name)
    \/ \E t \in SubmitTasks, outcome \in SubmitOutcomes : submit_run_validate(t, outcome)
    \/ \E t \in SubmitTasks, b \in Bases : generate_run_name_lock(t, b)
    \/ \E t \in SubmitTasks : generate_run_name_get_run(t)
    \/ \E t \in SubmitTasks : delete_runs_select(t)
    \/ \E t \in SubmitTasks : delete_runs_update(t)
    \/ \E t \in SubmitTasks, committed \in BOOLEAN : delete_runs_commit(t, committed)
    \/ \E t \in SubmitTasks, jobs_ok \in BOOLEAN : submit_run_add(t, jobs_ok)
    \/ \E t \in SubmitTasks, registered \in BOOLEAN, jobs_ok \in BOOLEAN :
          submit_run_register_service(t, registered, jobs_ok)
    \/ \E t \in SubmitTasks, committed \in BOOLEAN : submit_run_commit(t, committed)
    \/ \E t \in SubmitTasks : submit_raise(t)
    \/ \E t \in SubmitTasks : get_run_plan_get_or_create_pool(t)
    \/ \E t \in SubmitTasks : get_run_plan_return(t)
    \/ \E i \in 1..MaxRunRows : run_finishes(i)

SpecSubmit == Init /\ [][NextSubmit]_vars

\* submit_run of run specs without run_name (scenario S1), with the retries
\* of process_runs
NextResubmit ==
    \/ \E t \in SubmitTasks, configuration \in Configurations :
          submit_call(t, "submit_run", NoRunName, configuration, "default")
    \/ \E t \in SubmitTasks, outcome \in SubmitOutcomes : submit_run_validate(t, outcome)
    \/ \E t \in SubmitTasks, b \in Bases : generate_run_name_lock(t, b)
    \/ \E t \in SubmitTasks : generate_run_name_get_run(t)
    \/ \E t \in SubmitTasks, jobs_ok \in BOOLEAN : submit_run_add(t, jobs_ok)
    \/ \E t \in SubmitTasks, registered \in BOOLEAN, jobs_ok \in BOOLEAN :
          submit_run_register_service(t, registered, jobs_ok)
    \/ \E t \in SubmitTasks, committed \in BOOLEAN : submit_run_commit(t, committed)
    \/ \E t \in SubmitTasks : submit_raise(t)
    \/ \E i \in 1..MaxRunRows : run_finishes(i)
    \/ \E i \in 1..MaxRunRows :
          \E job \in run_model_to_run(i) : process_runs_retry(i, job)

SpecResubmit == Init /\ [][NextResubmit]_vars

\* ---------------------------------------------------------- delete_runs

\* the run names of the delete_runs requests and of the stored runs
DeleteRunNames == {RunName(b, idx) : b \in Bases, idx \in 1..2}

\* a stored RunModel row as submit_run leaves it (runs.py:330-341); the
\* reconcilers and delete_runs take it to the finished and the deleted rows
StoredRunModels ==
    {[project_id |-> p, run_name |-> n, status |-> "SUBMITTED", deleted |-> FALSE,
      generated |-> FALSE] : p \in Projects, n \in DeleteRunNames}

StoredRunRows == UNION {[1..n -> StoredRunModels] : n \in 0..NumStoredRuns}

\* projects with runs already stored, and no request being served
InitDelete ==
    /\ InitTermination
    /\ planned_offers = <<>>
    /\ ci = NoCreateInstance
    /\ instances = {}
    /\ InitGateway
    /\ run_rows \in StoredRunRows
    /\ job_rows = {}
    /\ pool_rows = {"default"}
    /\ name_lock = Unlocked
    /\ sub = [t \in SubmitTasks |-> NoSubmitCall]
    /\ InitGather
    /\ plan = NoPlan

\* delete_runs requests on the stored runs, next to the reconcilers and to
\* submit_run requests that name their run
NextDelete ==
    \/ \E t \in SubmitTasks, project_id \in Projects, runs_names \in SUBSET DeleteRunNames :
          delete_runs_call(t, project_id, runs_names)
    \/ \E t \in SubmitTasks : delete_runs_select(t)
    \/ \E t \in SubmitTasks : delete_runs_update(t)
    \/ \E t \in SubmitTasks, committed \in BOOLEAN : delete_runs_commit(t, committed)
    \/ \E t \in SubmitTasks, run_name \in DeleteRunNames :
          submit_call(t, "submit_run", run_name, NoSubmitCall.configuration, "default")
    \/ \E t \in SubmitTasks, outcome \in SubmitOutcomes : submit_run_validate(t, outcome)
    \/ \E t \in SubmitTasks, jobs_ok \in BOOLEAN : submit_run_add(t, jobs_ok)
    \/ \E t \in SubmitTasks, committed \in BOOLEAN : submit_run_commit(t, committed)
    \/ \E t \in SubmitTasks : submit_raise(t)
    \/ \E i \in 1..NumStoredRuns : run_finishes(i)

SpecDelete == InitDelete /\ [][NextDelete]_vars

\* ------------------------------------------------- claims: delete_runs

\* task t is inside delete_runs, called by a request or by submit_run
InDeleteRuns(t) == sub[t].pc \in {"delete_select", "delete_update", "delete_commit"}

\* C32: delete_runs is all-or-nothing. When a run of the project with one of
\* the given names is not finished, the call raises the client error 'Cannot
\* delete active runs' and no step of it changes a run row; otherwise the
\* call changes nothing until its commit, after which every run it selected
\* has deleted = true, the rows of other names or other projects are as
\* before, and no row has changed in anything but its deleted flag. A commit
\* that fails changes no row.
C32_DeleteRunsAllOrNothing ==
    [][\A t \in SubmitTasks :
          (InDeleteRuns(t) /\ sub'[t] # sub[t]) =>
            LET run_models == RunModelsWhere(sub[t].project_id, sub[t].runs_names)
                active_runs == {i \in run_models : ~RunIsFinished(run_rows[i].status)}
                returned == sub'[t].pc = "add" \/
                               (sub'[t].pc = "idle" /\ sub'[t].result = "ok")
            IN
              /\ sub[t].pc = "delete_select" =>
                    /\ run_rows' = run_rows
                    /\ IF active_runs # {}
                       THEN /\ sub'[t].pc = "raised"
                            /\ sub'[t].error = "Cannot delete active runs"
                       ELSE /\ sub'[t].pc = "delete_update"
                            /\ sub'[t].run_models = run_models
              /\ sub[t].pc = "delete_update" =>
                    /\ run_rows' = run_rows
                    /\ sub'[t].pc = "delete_commit"
              /\ (sub[t].pc = "delete_commit" /\ ~returned) =>
                    /\ run_rows' = run_rows
                    /\ sub'[t].pc = "raised"
              /\ (sub[t].pc = "delete_commit" /\ returned) =>
                    /\ DOMAIN run_rows' = DOMAIN run_rows
                    /\ \A i \in sub[t].run_models : run_rows'[i].deleted
                    /\ \A i \in DOMAIN run_rows :
                          /\ [run_rows'[i] EXCEPT !.deleted = run_rows[i].deleted]
                                = run_rows[i]
                          /\ ( \/ run_rows[i].project_id # sub[t].project_id
                               \/ run_rows[i].run_name \notin sub[t].runs_names ) =>
                                run_rows'[i] = run_rows[i]]_vars

\* one delete_runs call was refused for an active run and another has
\* returned: of three stored runs, the one it names is deleted, the run of
\* another name and the run of another project are not
C32_Witness ==
    /\ \E t \in SubmitTasks :
          sub[t].pc = "idle" /\ sub[t].result = "Cannot delete active runs"
    /\ \E t \in SubmitTasks : sub[t].pc = "idle" /\ sub[t].result = "ok"
    /\ Len(run_rows) = NumStoredRuns
    /\ \E i, j, k \in DOMAIN run_rows :
          /\ run_rows[i].deleted /\ RunIsFinished(run_rows[i].status)
          /\ run_rows[j].project_id = run_rows[i].project_id
          /\ run_rows[j].run_name # run_rows[i].run_name
          /\ ~run_rows[j].deleted
          /\ run_rows[k].project_id # run_rows[i].project_id
          /\ run_rows[k].run_name = run_rows[i].run_name
          /\ RunIsFinished(run_rows[k].status)
          /\ ~run_rows[k].deleted

\* ------------------------------------------------ claims: run submission

\* C15 (as claimed): any two persisted, non-deleted runs whose names were
\* generated by submit_run have different run_name values, however the two
\* submit_run calls interleave.
C15_Original ==
    \A i, j \in DOMAIN run_rows :
        ( /\ i # j
          /\ run_rows[i].generated /\ run_rows[j].generated
          /\ ~run_rows[i].deleted /\ ~run_rows[j].deleted ) =>
            run_rows[i].run_name # run_rows[j].run_name

\* the call of task t is a submit_run of a service with replicas.min >= 1 and
\* replicas.min # replicas.max
AutoScaling(t) ==
    /\ sub[t].op = "submit_run"
    /\ sub[t].configuration.type = "service"
    /\ sub[t].configuration.min >= 1
    /\ sub[t].configuration.min # sub[t].configuration.max

C17_Original ==
    \A i, j \in DOMAIN run_rows :
        (i # j /\ ~run_rows[i].deleted /\ ~run_rows[j].deleted) =>
            run_rows[i].run_name # run_rows[j].run_name

\* C18 (as claimed): a submit_run that fails has inserted no row and has
\* soft-deleted no existing run.
C18_Original ==
    \A t \in SubmitTasks :
        (sub[t].op = "submit_run" /\ sub[t].pc = "raised") =>
            /\ sub[t].inserted = 0
            /\ sub[t].soft_deleted = {}

\* C19 (as claimed): no step of get_run_plan changes the run, job, pool or
\* instance rows.
C19_Original ==
    [][\A t \in SubmitTasks :
          (sub[t].op = "get_run_plan" /\ sub'[t] # sub[t]) =>
              UNCHANGED <<run_rows, job_rows, pool_rows, instances>>]_vars

\* the JobModel rows of one logical job of a run
SubmissionsOf(rows, i, replica_num, job_num) ==
    {j \in rows : j.run = i /\ j.replica_num = replica_num /\ j.job_num = job_num}

\* the number of replicas submit_run materializes for the configuration
ReplicasOf(configuration) ==
    IF configuration.type = "service" THEN configuration.min ELSE 1

\* C23: a successful submit_run persists one run with status SUBMITTED and,
\* for each replica and each job of the run spec, one job with status
\* SUBMITTED and submission_num 0; a new submission's submission_num is the
\* number of existing submissions of its (replica_num, job_num); and in every
\* state the submission numbers of each logical job are distinct and
\* contiguous from 0.
C23_SubmissionNumbers ==
    /\ [](\A j \in job_rows :
            LET same == SubmissionsOf(job_rows, j.run, j.replica_num, j.job_num) IN
              /\ {x.submission_num : x \in same} = 0..(Cardinality(same) - 1)
              /\ \A x, y \in same : x.submission_num = y.submission_num => x = y)
    /\ [][ /\ \A t \in SubmitTasks :
                 (sub[t].pc = "commit" /\ sub'[t].result = "ok")
                     => LET id == sub'[t].inserted IN
                          /\ Len(run_rows') = Len(run_rows) + 1
                          /\ id = Len(run_rows')
                          /\ run_rows'[id].status = "SUBMITTED"
                          /\ {j \in job_rows' : j.run = id}
                               = {[run |-> id, job_num |-> 0, replica_num |-> n,
                                   submission_num |-> 0, status |-> "SUBMITTED"] :
                                     n \in 0..(ReplicasOf(sub[t].configuration) - 1)}
           /\ \A j \in job_rows' \ job_rows :
                 j.status = "SUBMITTED"
                     => j.submission_num =
                          Cardinality(SubmissionsOf(job_rows, j.run, j.replica_num,
                                                    j.job_num)) ]_vars

C23_Witness ==
    \E t \in SubmitTasks, j \in job_rows :
        /\ sub[t].result = "ok"
        /\ j.run = sub[t].inserted
        /\ j.replica_num = 1
        /\ j.submission_num = 1
        /\ j.status = "SUBMITTED"

\* ------------------------------------- stop_runs: the gathered stop_run calls

\* the request handler gives each request a session of its own, which
\* stop_runs receives (runs.py:395)
stop_runs_call(q, runs_names, abort) ==
    /\ requests[q].pc = "idle"
    /\ runs_names # {}
    /\ requests' = [requests EXCEPT ![q] =
                      [pc |-> "execute", session |-> q, runs_names |-> runs_names,
                       abort |-> abort]]
    /\ UNCHANGED <<restOfGather, PROCESSING_RUNS_IDS, listed_runs, coroutines>>

\* runs.py:404-413: the unfinished runs of the given names are selected and
\* asyncio.gather starts stop_run(session, run, abort) for each of them
stop_runs_gather(q) ==
    /\ requests[q].pc = "execute"
    /\ requests' = [requests EXCEPT ![q].pc = "gather"]
    /\ coroutines' = [coroutines EXCEPT ![q] =
          [r \in ListedRuns |->
              IF r \in requests[q].runs_names /\ ~RunIsFinished(listed_runs[r])
              THEN "wait_to_lock" ELSE "none"]]
    /\ UNCHANGED <<restOfGather, PROCESSING_RUNS_IDS, listed_runs>>

\* runs.py:417
gathered_wait_to_lock(q, r) ==
    /\ coroutines[q][r] = "wait_to_lock"
    /\ wait_to_lock(PROCESSING_RUNS_IDS, r)
    /\ PROCESSING_RUNS_IDS' = PROCESSING_RUNS_IDS \cup {r}
    /\ coroutines' = [coroutines EXCEPT ![q][r] = "refresh"]
    /\ UNCHANGED <<restOfGather, listed_runs, requests>>

\* runs.py:420-428: session.refresh(run) ends; a finished run returns
gathered_refresh(q, r) ==
    /\ coroutines[q][r] = "refresh"
    /\ coroutines' = [coroutines EXCEPT ![q][r] =
                        IF RunIsFinished(listed_runs[r]) THEN "finally" ELSE "commit"]
    /\ UNCHANGED <<restOfGather, PROCESSING_RUNS_IDS, listed_runs, requests>>

\* runs.py:429: session.commit() writes the run as TERMINATING
gathered_commit(q, r) ==
    /\ coroutines[q][r] = "commit"
    /\ listed_runs' = [listed_runs EXCEPT ![r] = "TERMINATING"]
    /\ coroutines' = [coroutines EXCEPT ![q][r] = "process_terminating_run"]
    /\ UNCHANGED <<restOfGather, PROCESSING_RUNS_IDS, requests>>

\* runs.py:432 and 698-748: process_terminating_run(session, run) refreshes the
\* run on the session and finishes it unless a job is left unfinished
gathered_process_terminating_run(q, r, finished) ==
    /\ coroutines[q][r] = "process_terminating_run"
    /\ listed_runs' = [listed_runs EXCEPT ![r] =
                          IF finished
                          THEN run_termination_reason_to_status(
                                   IF requests[q].abort THEN "ABORTED_BY_USER"
                                   ELSE "STOPPED_BY_USER")
                          ELSE @]
    /\ coroutines' = [coroutines EXCEPT ![q][r] = "commit_processed"]
    /\ UNCHANGED <<restOfGather, PROCESSING_RUNS_IDS, requests>>

\* runs.py:434-435
gathered_commit_processed(q, r) ==
    /\ coroutines[q][r] = "commit_processed"
    /\ coroutines' = [coroutines EXCEPT ![q][r] = "finally"]
    /\ UNCHANGED <<restOfGather, PROCESSING_RUNS_IDS, listed_runs, requests>>

\* runs.py:436-437
gathered_finally(q, r) ==
    /\ coroutines[q][r] = "finally"
    /\ PROCESSING_RUNS_IDS' = PROCESSING_RUNS_IDS \ {r}
    /\ coroutines' = [coroutines EXCEPT ![q][r] = "done"]
    /\ UNCHANGED <<restOfGather, listed_runs, requests>>

\* runs.py:413: gather returns when every stop_run has ended
stop_runs_return(q) ==
    /\ requests[q].pc = "gather"
    /\ \A r \in ListedRuns : coroutines[q][r] \in {"none", "done"}
    /\ requests' = [requests EXCEPT ![q] = NoStopRuns]
    /\ coroutines' = [coroutines EXCEPT ![q] = [r \in ListedRuns |-> "none"]]
    /\ UNCHANGED <<restOfGather, PROCESSING_RUNS_IDS, listed_runs>>

NextGather ==
    \/ \E q \in StopRequests, runs_names \in SUBSET ListedRuns, abort \in BOOLEAN :
          stop_runs_call(q, runs_names, abort)
    \/ \E q \in StopRequests : stop_runs_gather(q)
    \/ \E q \in StopRequests, r \in ListedRuns : gathered_wait_to_lock(q, r)
    \/ \E q \in StopRequests, r \in ListedRuns : gathered_refresh(q, r)
    \/ \E q \in StopRequests, r \in ListedRuns : gathered_commit(q, r)
    \/ \E q \in StopRequests, r \in ListedRuns, finished \in BOOLEAN :
          gathered_process_terminating_run(q, r, finished)
    \/ \E q \in StopRequests, r \in ListedRuns : gathered_commit_processed(q, r)
    \/ \E q \in StopRequests, r \in ListedRuns : gathered_finally(q, r)
    \/ \E q \in StopRequests : stop_runs_return(q)

SpecGather == Init /\ [][NextGather]_vars

\* -------------------------------------------------------- claims: sessions

\* the stop_run of request q for run r is suspended in a refresh or a commit
\* on its session
AwaitsSession(q, r) ==
    coroutines[q][r] \in {"refresh", "commit", "process_terminating_run",
                          "commit_processed"}

\* C20 (as claimed): no two tasks that are suspended at the same time have a
\* refresh or a commit in flight on the same session.
C20_Original ==
    \A q1, q2 \in StopRequests, r1, r2 \in ListedRuns :
        ( /\ <<q1, r1>> # <<q2, r2>>
          /\ AwaitsSession(q1, r1)
          /\ AwaitsSession(q2, r2) ) =>
            requests[q1].session # requests[q2].session

\* ------------------------------------------- get_run_plan: the job plan

\* runs.py:249: the number of offers a job plan shows
JobPlanOffersLimit == 50

CreationPolicies == {"reuse", "reuse-or-create"}

\* the offers of n pool instances, and n offers of the backends; the e-th one
\* is dearer than the others (none when e = 0)
PoolOfferList(n, e) ==
    [k \in 1..n |-> [instance |-> <<"pool", k>>, price |-> IF k = e THEN 2 ELSE 1]]
RemoteOfferList(n, e) ==
    [k \in 1..n |-> [instance |-> <<"backend", k>>, price |-> IF k = e THEN 3 ELSE 1]]

PoolOfferLists ==
    UNION {{PoolOfferList(n, e) : e \in 0..n} : n \in 0..MaxPoolOffers}
RemoteOfferLists ==
    UNION {{RemoteOfferList(n, e) : e \in 0..n} : n \in 0..MaxRemoteOffers}

\* max(iterable, default=None) over a set of prices
MaxPrice(prices) ==
    IF prices = {} THEN NoPrice
    ELSE CHOOSE p \in prices : \A q \in prices : q <= p

\* offers[:n]
Slice(offers, n) ==
    IF Len(offers) <= n THEN offers ELSE SubSeq(offers, 1, n)

\* runs.py:213-235: the offers of the pool instances are collected and
\* job_offers starts with them
get_run_plan_pool_offers(pool_offers, creation_policy) ==
    /\ plan.pc = "idle"
    /\ plan' = [NoPlan EXCEPT
                  !.pc = IF creation_policy = "reuse-or-create"
                         THEN "get_offers" ELSE "job_plan",
                  !.creation_policy = creation_policy,
                  !.pool_offers = pool_offers]
    /\ UNCHANGED restOfPlan

\* runs.py:237-244: with REUSE_OR_CREATE the offers of the backends are
\* fetched and appended
get_run_plan_get_offers(offers) ==
    /\ plan.pc = "get_offers"
    /\ plan' = [plan EXCEPT !.pc = "job_plan", !.offers = offers]
    /\ UNCHANGED restOfPlan

\* mutant: max_price is taken over the offers the plan shows
get_run_plan_job_plan_max_of_shown ==
    /\ plan.pc = "job_plan"
    /\ LET job_offers == plan.pool_offers \o plan.offers
           shown == Slice(job_offers, JobPlanOffersLimit)
       IN plan' = [plan EXCEPT !.pc = "return",
                     !.job_plan =
                        [offers |-> shown,
                         total_offers |-> Len(job_offers),
                         max_price |->
                            MaxPrice({shown[k].price : k \in 1..Len(shown)})]]
    /\ UNCHANGED restOfPlan

\* runs.py:247-253: JobPlan(offers=job_offers[:50], total_offers=len(job_offers),
\* max_price=max((offer.price for offer in job_offers), default=None))
get_run_plan_job_plan ==
    /\ plan.pc = "job_plan"
    /\ LET job_offers == plan.pool_offers \o plan.offers IN
         plan' = [plan EXCEPT !.pc = "return",
                     !.job_plan =
                        [offers |-> Slice(job_offers, JobPlanOffersLimit),
                         total_offers |-> Len(job_offers),
                         max_price |->
                            MaxPrice({job_offers[k].price : k \in 1..Len(job_offers)})]]
    /\ UNCHANGED restOfPlan

\* runs.py:255-260: the run plan is returned
get_run_plan_return_plan ==
    /\ plan.pc = "return"
    /\ plan' = NoPlan
    /\ UNCHANGED restOfPlan

NextPlan ==
    \/ \E pool_offers \in PoolOfferLists, creation_policy \in CreationPolicies :
          get_run_plan_pool_offers(pool_offers, creation_policy)
    \/ \E offers \in RemoteOfferLists : get_run_plan_get_offers(offers)
    \/ get_run_plan_job_plan
    \/ get_run_plan_return_plan

SpecPlan == Init /\ [][NextPlan]_vars

\* ------------------------------------------------------ claims: job plan

\* C24: in the job plan the offers are the pool offers followed by the remote
\* offers in their given order, cut to the first 50; total_offers is the
\* length of the whole concatenation; max_price is the maximum price over the
\* whole concatenation, or null when it is empty.
C24_JobPlan ==
    plan.pc = "return" =>
        LET pool == plan.pool_offers
            remote == plan.offers
            total == Len(pool) + Len(remote)
            shown == plan.job_plan.offers
            prices == {pool[k].price : k \in 1..Len(pool)}
                        \cup {remote[k].price : k \in 1..Len(remote)}
        IN
          /\ Len(shown) = IF total < 50 THEN total ELSE 50
          /\ \A k \in 1..Len(shown) :
                shown[k] = IF k <= Len(pool) THEN pool[k] ELSE remote[k - Len(pool)]
          /\ plan.job_plan.total_offers = total
          /\ total = 0 => plan.job_plan.max_price = NoPrice
          /\ total > 0 =>
                /\ plan.job_plan.max_price \in prices
                /\ \A p \in prices : p <= plan.job_plan.max_price

C24_Witness ==
    /\ plan.pc = "return"
    /\ Len(plan.pool_offers) = 49
    /\ Len(plan.offers) = 2
    /\ plan.job_plan.total_offers = 51
    /\ Len(plan.job_plan.offers) = 50
    /\ plan.job_plan.offers[50].instance[1] = "backend"
    /\ \A k \in 1..50 : plan.job_plan.offers[k].price < plan.job_plan.max_price

====
